---- MODULE Spec2Model ----
(***************************************************************************)
(* Year-stepped trade simulation engine (TradeSimulationEngine) and the    *)
(* models it drives.                                                       *)
(*                                                                         *)
(* Numbers: every rate, index and share is kept in fixed point, in units   *)
(* of 1/10000 (One = 1.0).  Volumes are kept in the unit the code uses.    *)
(* A Python dict is a TLA+ function over its keys; a dict that the code    *)
(* shares by reference is an entry of heap, and the dicts that hold it     *)
(* hold its reference.                                                     *)
(***************************************************************************)
EXTENDS Integers, Sequences, FiniteSets, TLC

VARIABLES
    cfg0,            \* the configuration mapping as it was handed to the engine
    config,          \* the same mapping object, as it is now
    faultPlan,       \* the (model, year) calls that raise under this configuration
    initFails,       \* the models whose constructor raises under this configuration
    clock,           \* wall clock, in seconds
    pc,              \* "new", "running", "crashed", "done", "saved"
    run,             \* 1 for the first engine built on config, 2 for the second
    models,          \* self.models: keys of the macro models that were initialised
    export_models,   \* self.export_models: sector names, in insertion order
    import_models,   \* self.import_models: category names, in insertion order
    np_rng,          \* state of numpy's global generator
    py_rng,          \* state of the random module's global generator
    year,            \* self.current_year
    step,            \* position inside simulate_year
    calls,           \* the model calls made so far in the current year
    simulated,       \* the years handed to simulate_year so far
    yr,              \* year_results under construction
    loc,             \* the locals of simulate_year that outlive one call
    metadata,        \* self.results['metadata']
    yearly_data,     \* self.results['yearly_data']
    saved,           \* names of the intermediate files written
    output,          \* the JSON documents written by run_single_scenario, by run
    heap,            \* dict objects shared by reference
    geo,             \* state of GeopoliticalModel
    inv,             \* state of InvestmentModel
    exch,            \* state of ExchangeRateModel
    struct,          \* state of StructuralTransformationModel
    sect,            \* state of every ExportSectorModel
    imp,             \* state of every ImportDependencyModel
    trade_policy,    \* state of TradePolicyModel
    compliance       \* state of ComplianceModel and its three sub-models

modelVars == <<heap, geo, inv, exch, struct, sect, imp, trade_policy, compliance>>
inputVars == <<cfg0, faultPlan, initFails>>
vars == <<cfg0, config, faultPlan, initFails, clock, pc, run, models,
          export_models, import_models, np_rng, py_rng, year, step, calls,
          simulated, yr, loc, metadata, yearly_data, saved, output, heap, geo,
          inv, exch, struct, sect, imp, trade_policy, compliance>>

----------------------------------------------------------------------------
(* Bounds of the model *)

NumYears == 2
MaxFaults == 1
MaxInitFail == 1
MaxClock == 1

(* Fixed point *)
One == 100 * 100

Min(a, b) == IF a <= b THEN a ELSE b
Max(a, b) == IF a >= b THEN a ELSE b
Clamp(lo, hi, x) == Max(lo, Min(hi, x))
Abs(x) == IF x < 0 THEN -x ELSE x

(* dict.get(key, default) *)
Get(d, k, default) == IF k \in DOMAIN d THEN d[k] ELSE default

EmptyDict == <<>>

IsError(r) == DOMAIN r = {"error"}

----------------------------------------------------------------------------
(* The two process-global pseudo-random generators.  Each is an            *)
(* deterministic sequence fixed by its seed; a draw advances the state.    *)

RngModulus == 4 * 4
RngNext(x) == (5 * x + 3) % RngModulus

RECURSIVE RngAt(_, _)
(* the generator state after k draws from state x; the k-th draw is x/16 in [0, 1) *)
RngAt(x, k) == IF k = 0 THEN x ELSE RngAt(RngNext(x), k - 1)

(* random() < p, for p in fixed point *)
Below(x, p) == x * One < p * RngModulus
(* uniform(lo, hi) *)
Uniform(x, lo, hi) == lo + ((hi - lo) * x) \div RngModulus
(* normal(0, sigma), cut to a symmetric five-point distribution over [-2 sigma, 2 sigma] *)
Normal(x, sigma) == ((x % 5) - 2) * sigma

----------------------------------------------------------------------------
(* Configuration *)

StartYear == 2025
Years == StartYear .. (StartYear + NumYears - 1)
Seeds == {42}

MacroOrder == <<"global_market", "geopolitical", "investment", "trade_policy",
                "logistics", "exchange_rate", "compliance", "structural",
                "digital_trade", "services_trade">>
MacroKeys == {MacroOrder[i] : i \in DOMAIN MacroOrder}
(* the key of year_results under which the engine files a macro model's result *)
ResultKey(m) == IF m = "structural" THEN "structural_transformation" ELSE m

SectorOrder == <<"rmg", "pharma">>
CategoryOrder == <<"industrial_inputs">>
SectorNames == {SectorOrder[i] : i \in DOMAIN SectorOrder}
CategoryNames == {CategoryOrder[i] : i \in DOMAIN CategoryOrder}
SectorConfigs ==
    [rmg |-> [current_volume |-> 35000, growth_trajectory |-> 800,
              global_market_share |-> 600, tariff_exposure |-> 1500],
     pharma |-> [current_volume |-> 1500, growth_trajectory |-> 1200,
                 global_market_share |-> 100, tariff_exposure |-> 1000]]

ConfigOf(seed, save) ==
    [random_seed |-> seed,
     save_intermediate_results |-> save,
     export_sector_config |-> [sectors |-> SectorConfigs],
     import_dependency_config |-> [categories |-> [industrial_inputs |-> [current_volume |-> 25000, domestic_production_ratio |-> 3000,
                                                                          growth_trajectory |-> 700, price_sensitivity |-> 6000,
                                                                          substitution_elasticity |-> 4000]]],
     geopolitical_config |-> [regional_integration |->
                                  [bbin |-> [implementation_level |-> 3000, annual_improvement |-> 300],
                                   bay_of_bengal |-> [cooperation_level |-> 4000, annual_improvement |-> 200],
                                   saarc |-> [revival_probability |-> 3000]],
                              global_tensions |->
                                  [us_china |-> [initial_level |-> 7000, annual_change |-> -100],
                                   india_china |-> [initial_level |-> 6000, annual_change |-> -100]],
                              trade_war_probability |-> [initial |-> 3000, annual_change |-> -100]]]

(* the configuration with entries that omit keys: a sector without volume, *)
(* market share and tariff exposure, a category without volume and         *)
(* elasticities                                                            *)
SparseConfig(c) ==
    [c EXCEPT !.export_sector_config.sectors.pharma = [growth_trajectory |-> 1200],
              !.import_dependency_config.categories.industrial_inputs =
                  [domestic_production_ratio |-> 3000, growth_trajectory |-> 700]]

(* Subsets of S with at most n elements *)
RECURSIVE UpTo(_, _)
UpTo(S, n) ==
    IF n = 0 THEN {{}}
    ELSE LET P == UpTo(S, n - 1) IN P \cup {T \cup {x} : T \in P, x \in S}

----------------------------------------------------------------------------
(* GeopoliticalModel.  Its three sub-models keep references to the nested  *)
(* dicts of the configuration (self.bbin = config.get('bbin', {}) and so   *)
(* on), so the levels they update live in the configuration mapping.       *)
(* The engine calls it with the default regional_dynamics = 0.5 and        *)
(* global_tensions = 0.5.  The bilateral-relation, alignment, development  *)
(* finance and order-diversion figures are left out.                       *)

PotentialConflicts ==
    << [a |-> "us", b |-> "china", id |-> "us_china", rid |-> "china_us", intensity |-> 7000],
       [a |-> "us", b |-> "eu", id |-> "us_eu", rid |-> "eu_us", intensity |-> 5000],
       [a |-> "china", b |-> "india", id |-> "china_india", rid |-> "india_china", intensity |-> 6000],
       [a |-> "china", b |-> "vietnam", id |-> "china_vietnam", rid |-> "vietnam_china", intensity |-> 4000] >>

(* the reference of the tariff_rates dict of TradePolicyModel.policies *)
TariffRatesRef == <<"tariff_rates", 0>>

(* TradeWarImpactsModel.__init__ copies the two numbers out of its configuration *)
GeoInit(cfg) ==
    [current_probability |-> cfg.geopolitical_config.trade_war_probability.initial,
     annual_change |-> cfg.geopolitical_config.trade_war_probability.annual_change,
     active_trade_wars |-> <<>>]

ActiveIds(active) == {active[i][1] : i \in DOMAIN active}

(* RegionalIntegrationModel.simulate_integration *)
SimulateIntegration(g, rng, yi, y, cooperation_level) ==
    LET new_bbin == Min(One, g.bbin.implementation_level
                             + (g.bbin.annual_improvement * cooperation_level) \div One)
        new_bob == Min(One, g.bay_of_bengal.cooperation_level
                            + (g.bay_of_bengal.annual_improvement * cooperation_level) \div One)
        x1 == RngNext(rng)
        india_pakistan_relations == 3000 + (1000 * x1) \div RngModulus
        saarc_revival_prob == (7 * g.saarc.revival_probability + 3 * india_pakistan_relations) \div 10
        x2 == RngNext(x1)
        saarc_revival == Below(x2, saarc_revival_prob) /\ cooperation_level > 6000
    IN  [g |-> [g EXCEPT !.bbin.implementation_level = new_bbin,
                         !.bay_of_bengal.cooperation_level = new_bob,
                         !.saarc.revival_probability = saarc_revival_prob],
         rng |-> x2,
         result |-> [year_index |-> yi, simulation_year |-> y,
                     bbin_implementation |-> new_bbin,
                     bay_of_bengal_cooperation |-> new_bob,
                     saarc_revival_probability |-> saarc_revival_prob,
                     saarc_revival_occurred |-> saarc_revival]]

(* GlobalPowerShiftsModel.simulate_power_shifts *)
SimulatePowerShifts(g, yi, y, tension_level) ==
    LET adj(change, k) == (change * (One + ((tension_level - 5000) * k) \div 10)) \div One
        new_us_china == Clamp(3000, 9000, g.us_china.initial_level + adj(g.us_china.annual_change, 20))
        new_india_china == Clamp(3000, 9000, g.india_china.initial_level + adj(g.india_china.annual_change, 15))
    IN  [g |-> [g EXCEPT !.us_china.initial_level = new_us_china,
                         !.india_china.initial_level = new_india_china],
         result |-> [year_index |-> yi, simulation_year |-> y,
                     us_china_tension |-> new_us_china,
                     india_china_tension |-> new_india_china]]

(* Binary floating point.  A draw is a multiple x / RngModulus of the      *)
(* generator's resolution (numpy: 2^-53, here 2^-4), and a float has as    *)
(* many significant bits as a draw (IEEE double: 53, here 4).  Floats are  *)
(* written as numerators over RngModulus.  Ulp(n) is the spacing of the    *)
(* floats around n, RoundEven(n) the float nearest to n, a tie going to    *)
(* the even significand: the result of one arithmetic operation.          *)
RECURSIVE Ulp(_)
Ulp(n) == IF n < RngModulus THEN 1 ELSE 2 * Ulp(n \div 2)

RoundEven(n) ==
    LET u == Ulp(n)
        q == n \div u
        r == n % u
    IN  IF 2 * r < u THEN q * u
        ELSE IF 2 * r > u THEN (q + 1) * u
        ELSE IF q % 2 = 0 THEN q * u ELSE (q + 1) * u

(* a duration without the two years every war lasts *)
WarDurationNoMinimum(x) == RoundEven(3 * x) \div RngModulus

(* int(2 + 3 * np.random.random()): the product and the sum are rounded,   *)
(* int() cuts the fraction off.  For the largest draw, 1 - 1/RngModulus,   *)
(* the rounded sum is exactly 5 (in IEEE double arithmetic                 *)
(* 2 + 3 * (1 - 2**-53) = 5.0); for every other draw it is below 5.        *)
WarDuration(x) == RoundEven(2 * RngModulus + RoundEven(3 * x)) \div RngModulus

RECURSIVE StartWars(_, _, _, _)
(* the loop over potential_conflicts; st = [rng, active, heap, new] *)
StartWars(i, st, y, probability) ==
    IF i > Len(PotentialConflicts) THEN st
    ELSE LET c == PotentialConflicts[i]
             ids == ActiveIds(st.active)
         IN  IF c.id \in ids \/ c.rid \in ids
             THEN StartWars(i + 1, st, y, probability)
             ELSE LET adjusted_probability ==
                          IF c.a = "us" /\ c.b = "china" THEN (probability * 15) \div 10
                          ELSE probability
                      x1 == RngNext(st.rng)
                      x2 == RngNext(x1)
                      x3 == RngNext(x2)
                      details == [started_year |-> y,
                                  intensity |-> (c.intensity * (8000 + (4000 * x2) \div RngModulus)) \div One,
                                  duration_years |-> WarDuration(x3)]
                      ref == <<c.id, y>>
                  IN  IF Below(x1, adjusted_probability)
                      THEN StartWars(i + 1,
                                     [rng |-> x3,
                                      active |-> Append(st.active, <<c.id, ref>>),
                                      heap |-> (ref :> details) @@ st.heap,
                                      new |-> (c.id :> details) @@ st.new],
                                     y, probability)
                      ELSE StartWars(i + 1, [st EXCEPT !.rng = x1], y, probability)

(* a war that lasts one year more than its duration *)
WarEndsLate(years_active, duration_years) == years_active > duration_years

(* if years_active >= details['duration_years']: the trade war ends *)
WarEnds(years_active, duration_years) == years_active >= duration_years

RECURSIVE UpdateWars(_, _, _, _)
(* the loop over active_trade_wars; st = [rng, heap, ended] *)
UpdateWars(j, active, st, y) ==
    IF j > Len(active) THEN st
    ELSE LET ref == active[j][2]
             details == st.heap[ref]
             years_active == y - details.started_year
             x == RngNext(st.rng)
         IN  IF WarEnds(years_active, details.duration_years)
             THEN UpdateWars(j + 1, active, [st EXCEPT !.ended = Append(@, active[j][1])], y)
             ELSE UpdateWars(j + 1, active,
                             [st EXCEPT !.rng = x,
                                        !.heap[ref].intensity =
                                            Clamp(1000, 9000, details.intensity + Normal(x, 1000))],
                             y)

RECURSIVE SumSeq(_)
SumSeq(s) == IF s = <<>> THEN 0 ELSE Head(s) + SumSeq(Tail(s))

SeqToSet(s) == {s[i] : i \in DOMAIN s}

(* TradeWarImpactsModel.simulate_trade_wars *)
SimulateTradeWars(tw, hp, rng, yi, y, tension_level) ==
    LET tension_effect == (tension_level - 5000) \div 10
        probability == Clamp(500, 8000, tw.current_probability + tw.annual_change + tension_effect)
        started == StartWars(1, [rng |-> rng, active |-> tw.active_trade_wars,
                                 heap |-> hp, new |-> EmptyDict], y, probability)
        updated == UpdateWars(1, started.active,
                              [rng |-> started.rng, heap |-> started.heap, ended |-> <<>>], y)
        remaining == SelectSeq(started.active, LAMBDA e : e[1] \notin SeqToSet(updated.ended))
        active_wars_intensity ==
            SumSeq([j \in DOMAIN remaining |-> updated.heap[remaining[j][2]].intensity])
    IN  [tw |-> [tw EXCEPT !.current_probability = probability,
                           !.active_trade_wars = remaining],
         heap |-> updated.heap,
         rng |-> updated.rng,
         result |-> [year_index |-> yi, simulation_year |-> y,
                     trade_war_probability |-> probability,
                     \* self.active_trade_wars.copy(): a new dict holding the same detail dicts
                     active_trade_wars |-> [id \in ActiveIds(remaining) |->
                                               (CHOOSE e \in SeqToSet(remaining) : e[1] = id)[2]],
                     new_trade_wars |-> started.new,
                     ended_trade_wars |-> updated.ended,
                     tariff_escalation |-> IF remaining = <<>> THEN 0
                                           ELSE active_wars_intensity \div 10]]

(* GeopoliticalModel.simulate_geopolitical_environment; g is the           *)
(* geopolitical_config part of the configuration, which the sub-models     *)
(* alias.                                                                  *)
SimulateGeopolitical(g, tw, hp, rng, yi, y) ==
    LET regional == SimulateIntegration(g.regional_integration, rng, yi, y, (One \div 2))
        global == SimulatePowerShifts(g.global_tensions, yi, y, (One \div 2))
        wars == SimulateTradeWars(tw, hp, regional.rng, yi, y, (One \div 2))
    IN  [g |-> [g EXCEPT !.regional_integration = regional.g,
                         !.global_tensions = global.g],
         tw |-> wars.tw, heap |-> wars.heap, rng |-> wars.rng,
         result |-> [year_index |-> yi, simulation_year |-> y,
                     regional_integration |-> regional.result,
                     global_power_shifts |-> global.result,
                     trade_war_impacts |-> wars.result]]

----------------------------------------------------------------------------
(* GlobalMarketModel.simulate_global_markets.  The market, competitor and  *)
(* supply-chain sub-models are reduced to one draw each; the keys of the   *)
(* result are the keys the code returns.                                   *)
SimulateGlobalMarkets(rng, yi, y, scenario) ==
    LET x1 == RngNext(rng)
        x2 == RngNext(x1)
        x3 == RngNext(x2)
        markets_growth == Uniform(x1, 100, 400)
        competitors_growth == Uniform(x2, 200, 500)
    IN  [rng |-> x3,
         result |-> [year_index |-> yi, simulation_year |-> y,
                     global_scenario |-> scenario,
                     market_opportunity |-> (markets_growth * 6) \div 10
                                            - (competitors_growth * 4) \div 10,
                     supply_chain_opportunity |-> Uniform(x3, -100, 300)]]

(* InvestmentModel.simulate_step; the sector shares and the SEZ figures are left out *)
InvestmentStep(m, rng, y, global_conditions) ==
    LET x1 == RngNext(rng)
        x2 == RngNext(x1)
        x3 == RngNext(x2)
        x4 == RngNext(x3)
        x5 == RngNext(x4)
        \* update_gdp
        investment_effect == (4 * ((m.fdi_inflow * One) \div m.gdp
                                   + (m.domestic_investment * One) \div m.gdp - 3000)) \div 10
        global_effect == IF "global_economic_growth" \in DOMAIN global_conditions
                         THEN (5 * global_conditions["global_economic_growth"]) \div 10 ELSE 0
        gdp_growth == 600 + investment_effect + global_effect + Uniform(x1, -100, 200)
        gdp == (m.gdp * (One + gdp_growth)) \div One
        \* simulate_fdi
        global_fdi == IF "global_fdi_flows" \in DOMAIN global_conditions
                      THEN (8 * global_conditions["global_fdi_flows"]) \div 10 ELSE 0
        fdi_growth == 800 + ((m.investment_policy_index - 5000) * 2) \div 10
                      - m.repatriation_restrictions \div 10 + 200 + global_fdi - 200
                      + Uniform(x2, -1500, 2500)
        fdi_inflow == (m.fdi_inflow * (One + fdi_growth)) \div One
        \* simulate_domestic_investment
        monetary_effect == IF "monetary_conditions" \in DOMAIN global_conditions
                           THEN (5 * global_conditions["monetary_conditions"]) \div 100 ELSE 0
        rate_change == 20 - 10 + 100 + monetary_effect + Uniform(x3, -100, 100)
        rate == Clamp(2500, 4000, m.domestic_investment_rate + rate_change)
        \* simulate_investment_policy
        reform_momentum == IF (y - 2025) % 5 <= 1 THEN 200 ELSE 50
        external_pressure == IF "investment_policy_pressure" \in DOMAIN global_conditions
                             THEN global_conditions["investment_policy_pressure"] \div 100 ELSE 0
        policy == Clamp(3000, 9500, m.investment_policy_index + 100 + reform_momentum
                                    + external_pressure + Uniform(x4, -300, 300))
        repatriation == Clamp(500, 7000, m.repatriation_restrictions - 200 + Uniform(x5, -200, 400))
        new == [gdp |-> gdp, fdi_inflow |-> fdi_inflow,
                domestic_investment_rate |-> rate,
                domestic_investment |-> (rate * gdp) \div One,
                investment_policy_index |-> policy,
                repatriation_restrictions |-> repatriation]
    IN  [m |-> new, rng |-> x5,
         result |-> [fdi_inflow |-> new.fdi_inflow,
                     domestic_investment |-> new.domestic_investment,
                     investment_policy_index |-> new.investment_policy_index,
                     gdp |-> new.gdp]]

(* TradePolicyModel.__init__ *)
TradePolicyInit(c) ==
    [ldc_graduation |-> Get(c, "ldc_graduation", EmptyDict),
     fta_implementation |-> Get(c, "fta_implementation", EmptyDict),
     domestic_policy |-> Get(c, "domestic_policy", EmptyDict),
     policies |-> [ldc_graduation_implemented |-> FALSE,
                   active_ftas |-> EmptyDict,
                   tariff_rates |-> TariffRatesRef,
                   economic_zones_operational |-> 0],
     historical_policy_impacts |-> EmptyDict]

(* policy_type.startswith('fta_') and policy_type[4:]: the policy types    *)
(* with that prefix and what follows the prefix                            *)
FtaNameOf ==
    [fta_safta |-> "safta", fta_bimstec |-> "bimstec",
     fta_rcep_accession |-> "rcep_accession", fta_proposed_ftas |-> "proposed_ftas",
     fta_efta |-> "efta"]

ExistingFtas == {"safta", "bimstec", "rcep_accession"}

(* the policy_impact dict as implement_policy_change first builds it; the  *)
(* trade creation and diversion figures, fixed multiples of the market     *)
(* access impact, are left out                                             *)
NoPolicyImpact(yi, y, policy_type, enforcement_quality) ==
    [year_index |-> yi, simulation_year |-> y, policy_type |-> policy_type,
     implemented |-> FALSE, implementation_level |-> 0,
     tariff_changes |-> EmptyDict, market_access_impact |-> 0,
     domestic_industry_impact |-> 0,
     enforcement_quality |-> enforcement_quality]

(* the tariff increases of LDC graduation, with the defaults of the code *)
LdcTariffChanges(g) ==
    [eu |-> Get(g, "eu_tariff_increase", 900),
     us |-> Get(g, "us_tariff_increase", 1500),
     canada |-> Get(g, "canada_tariff_increase", 1200),
     japan |-> Get(g, "japan_tariff_increase", 1000),
     australia |-> Get(g, "australia_tariff_increase", 800)]

(* the proposed FTAs, one after the other in the order of the dict: a      *)
(* country whose year has come is drawn for, and implemented at level 0.3  *)
(* when the draw u is below probability * enforcement_quality and the      *)
(* country has no active FTA yet; every implementation replaces the        *)
(* figures of the impact.                                                  *)
RECURSIVE ProposedFtas(_, _, _, _, _, _)
ProposedFtas(proposals, active, impact, y, enforcement_quality, u) ==
    IF proposals = <<>> THEN [active |-> active, impact |-> impact]
    ELSE LET p == Head(proposals)
             implementation_probability ==
                 (Get(p, "probability", 5000) * enforcement_quality) \div One
             hit == /\ y >= Get(p, "year", 2030)
                    /\ u < implementation_probability
                    /\ p.country \notin DOMAIN active
         IN  IF hit
             THEN ProposedFtas(Tail(proposals),
                               (p.country :> [implementation_level |-> 3000,
                                              year_implemented |-> y]) @@ active,
                               [impact EXCEPT !.implemented = TRUE,
                                              !.implementation_level = 3000,
                                              !.tariff_changes = (p.country :> -3000),
                                              !.market_access_impact = 1500],
                               y, enforcement_quality, u)
             ELSE ProposedFtas(Tail(proposals), active, impact, y, enforcement_quality, u)

(* an implementation step that is not held at the target *)
FtaNewLevelUncapped(target_level, current_level, enforcement_quality) ==
    current_level + (500 * enforcement_quality) \div One

(* new_level = min(target_level, current_level + 0.05 * enforcement_quality) *)
FtaNewLevel(target_level, current_level, enforcement_quality) ==
    Min(target_level, current_level + (500 * enforcement_quality) \div One)

(* the implementation level of an FTA as the code reads it *)
FtaLevel(m, fta_name) ==
    Get(Get(m.policies.active_ftas, fta_name, EmptyDict), "implementation_level", 0)

(* the configured target level of an FTA as the code reads it *)
FtaTarget(m, fta_name) ==
    Get(Get(m.fta_implementation, fta_name, EmptyDict), "implementation_level", 7000)

(* a graduation step that is pending whatever the flag says *)
LdcStepAlwaysPending(m) == TRUE

(* if not self.policies['ldc_graduation_implemented'] *)
LdcStepPending(m) == ~m.policies.ldc_graduation_implemented

(* TradePolicyModel.implement_policy_change.  h is the tariff_rates dict   *)
(* of the model, u the uniform draw of the call.  Returns the model, the   *)
(* tariff_rates dict and the impact returned.                              *)
ImplementPolicyChange(m, h, yi, y, policy_type, enforcement_quality, u) ==
    LET impact0 == NoPolicyImpact(yi, y, policy_type, enforcement_quality)
        fta_name == Get(FtaNameOf, policy_type, "")
        fta_config == Get(m.fta_implementation, fta_name, EmptyDict)
        stored(m1, h1, impact) ==
            [m |-> [m1 EXCEPT !.historical_policy_impacts = (yi :> impact) @@ @],
             heap |-> h1, result |-> impact]
    IN  IF policy_type = "ldc_graduation" /\ y >= Get(m.ldc_graduation, "year", 2026)
        THEN IF LdcStepPending(m)
             THEN LET tariff_changes == LdcTariffChanges(m.ldc_graduation)
                      total == tariff_changes.eu + tariff_changes.us + tariff_changes.canada
                               + tariff_changes.japan + tariff_changes.australia
                      market_access_impact == -(((total \div 5) * enforcement_quality) \div One)
                  IN  stored([m EXCEPT !.policies.ldc_graduation_implemented = TRUE],
                             tariff_changes @@ h,
                             [impact0 EXCEPT !.implemented = TRUE,
                                             !.implementation_level = enforcement_quality,
                                             !.tariff_changes = tariff_changes,
                                             !.market_access_impact = market_access_impact,
                                             !.domestic_industry_impact =
                                                 -((-market_access_impact * 7) \div 10)])
             ELSE stored(m, h, impact0)
        ELSE IF policy_type \in DOMAIN FtaNameOf /\ fta_name \in DOMAIN m.fta_implementation
        THEN IF fta_name = "proposed_ftas"
             THEN LET r == ProposedFtas(fta_config, m.policies.active_ftas, impact0,
                                        y, enforcement_quality, u)
                  IN  stored([m EXCEPT !.policies.active_ftas = r.active], h, r.impact)
             ELSE IF fta_name \in ExistingFtas
             THEN LET current_level == FtaLevel(m, fta_name)
                      target_level == FtaTarget(m, fta_name)
                  IN  IF current_level < target_level
                      THEN LET new_level == FtaNewLevel(target_level, current_level,
                                                        enforcement_quality)
                               entry == IF fta_name \notin DOMAIN m.policies.active_ftas
                                        THEN [implementation_level |-> new_level,
                                              year_implemented |-> y]
                                        ELSE [m.policies.active_ftas[fta_name]
                                                  EXCEPT !.implementation_level = new_level]
                               tariff_reduction ==
                                   (Get(fta_config, "tariff_reduction", 5000)
                                    * (new_level - current_level)) \div One
                               effective_tariff_reduction ==
                                   (tariff_reduction
                                    * (One - Get(fta_config, "sensitive_list_coverage", 3000)))
                                   \div One
                           IN  stored([m EXCEPT !.policies.active_ftas =
                                                    (fta_name :> entry) @@ @],
                                      h,
                                      [impact0 EXCEPT
                                           !.implemented = TRUE,
                                           !.implementation_level = new_level,
                                           !.tariff_changes =
                                               (fta_name :> -effective_tariff_reduction),
                                           !.market_access_impact =
                                               (effective_tariff_reduction * 7) \div 10])
                      ELSE stored(m, h, impact0)
             ELSE stored(m, h, impact0)
        ELSE IF policy_type = "domestic_policy"
        THEN LET tariff_reduction ==
                     (Get(m.domestic_policy, "import_tariff_rationalization", 500)
                      * enforcement_quality) \div One
                 export_incentives == Get(m.domestic_policy, "export_incentives", EmptyDict)
                 incentive_level == Get(export_incentives, "cash_incentive_level", 500)
                 covered_sectors == Get(export_incentives, "covered_sectors", <<>>)
                 ez_config == Get(m.domestic_policy, "economic_zones", EmptyDict)
                 planned_zones == Get(ez_config, "number_planned", 100)
                 annual_implementation_rate == Get(ez_config, "annual_implementation_rate", 600)
                 effectiveness == Get(ez_config, "effectiveness", 7000)
                 new_zones ==
                     Max(0, Min(planned_zones - m.policies.economic_zones_operational,
                                (((planned_zones * annual_implementation_rate) \div 100)
                                 * enforcement_quality) \div (One * 100)))
                 tariff_rationalization_impact == -((tariff_reduction * 6) \div 10)
                 export_incentive_impact ==
                     (((incentive_level * Len(covered_sectors)) \div 10)
                      * enforcement_quality) \div One
                 economic_zone_impact ==
                     (((new_zones * One) \div planned_zones) * effectiveness * 2) \div One
             IN  stored([m EXCEPT !.policies.economic_zones_operational = @ + new_zones],
                        h,
                        [impact0 EXCEPT
                             !.implemented = TRUE,
                             !.implementation_level = enforcement_quality,
                             !.tariff_changes = ("domestic" :> -tariff_reduction),
                             !.domestic_industry_impact =
                                 tariff_rationalization_impact + export_incentive_impact
                                 + economic_zone_impact])
        ELSE stored(m, h, impact0)

(* TradePolicyModel.get_overall_policy_environment, as the engine reaches  *)
(* it: no policy change is ever implemented, so historical_impacts is      *)
(* empty and the default environment comes back.  tariff_rates is the      *)
(* model's own dict, handed out by reference.                              *)
GetOverallPolicyEnvironment(yi, y) ==
    [year_index |-> yi, simulation_year |-> y,
     tariff_rates |-> TariffRatesRef,
     market_access_score |-> 7000,
     domestic_policy_score |-> 5000,
     fta_coverage |-> 0,
     economic_zones_operational |-> 0,
     ldc_benefits_active |-> TRUE]

(* 1 / (1 + 0.2 * age) *)
RecencyWeight(age) == (One * 10) \div (10 + 2 * age)

(* the recency-weighted sum of one impact field over the stored years ys *)
RECURSIVE WeightedImpacts(_, _, _, _)
WeightedImpacts(impacts, ys, yi, key) ==
    IF ys = {} THEN 0
    ELSE LET y == CHOOSE v \in ys : TRUE
         IN  (impacts[y][key] * RecencyWeight(yi - y)) \div One
             + WeightedImpacts(impacts, ys \ {y}, yi, key)

(* the sum of the tariff changes of one market over the stored years ys *)
RECURSIVE AccumulatedTariff(_, _, _)
AccumulatedTariff(impacts, ys, market) ==
    IF ys = {} THEN 0
    ELSE LET y == CHOOSE v \in ys : TRUE
         IN  Get(impacts[y].tariff_changes, market, 0)
             + AccumulatedTariff(impacts, ys \ {y}, market)

(* get_overall_policy_environment of a model m that may hold impacts; the  *)
(* tariff table of the branch without impacts is the reference to          *)
(* policies['tariff_rates'], that of the other branch a new dict           *)
OverallPolicyEnvironment(m, yi, y) ==
    LET relevant_impacts == {v \in DOMAIN m.historical_policy_impacts : v <= yi}
        impacts == m.historical_policy_impacts
        fta_coverage == (Cardinality(DOMAIN m.policies.active_ftas) * One) \div 10
        base == [GetOverallPolicyEnvironment(yi, y) EXCEPT
                     !.fta_coverage = fta_coverage,
                     !.economic_zones_operational = m.policies.economic_zones_operational,
                     !.ldc_benefits_active = ~m.policies.ldc_graduation_implemented]
        cumulative_market_access ==
            WeightedImpacts(impacts, relevant_impacts, yi, "market_access_impact")
        cumulative_domestic_impact ==
            WeightedImpacts(impacts, relevant_impacts, yi, "domestic_industry_impact")
    IN  IF relevant_impacts = {} THEN base
        ELSE [active_ftas |-> DOMAIN m.policies.active_ftas]
             @@ [base EXCEPT
                     !.tariff_rates =
                         [market \in UNION {DOMAIN impacts[v].tariff_changes :
                                                v \in relevant_impacts} |->
                             AccumulatedTariff(impacts, relevant_impacts, market)],
                     !.market_access_score =
                         Max(1000, Min(One, 7000 + cumulative_market_access)),
                     !.domestic_policy_score =
                         Max(1000, Min(One, 5000 + cumulative_domestic_impact))]

(* LogisticsModel.simulate_logistics_performance with no port configured:  *)
(* the port score is 0.0; the transport and facilitation scores, which the *)
(* code derives from qualities that improve every year, are reduced to a   *)
(* linear trend.                                                           *)
SimulateLogisticsPerformance(yi, y, trade_volume) ==
    LET port_performance_score == 0
        transport_performance_score == 5850 + 60 * (yi + 1)
        facilitation_performance_score == 5000 + 100 * (yi + 1)
        overall_performance == (40 * port_performance_score
                                + 35 * transport_performance_score
                                + 25 * facilitation_performance_score) \div 100
    IN  [year_index |-> yi, simulation_year |-> y,
         overall_performance |-> overall_performance,
         port_performance |-> port_performance_score,
         transport_performance |-> transport_performance_score,
         facilitation_performance |-> facilitation_performance_score,
         logistics_cost |-> Max(500, 1500 - (overall_performance - 5000) \div 10),
         reliability |-> Min(9800, 7000 + ((overall_performance - 5000) * 2) \div 10),
         container_volume |-> trade_volume \div 100,
         aggregate_port_capacity |-> 0,
         capacity_utilization |-> One]

----------------------------------------------------------------------------
(* ExchangeRateModel: the rate is kept in units of 0.01 BDT per USD,       *)
(* reserves and flows in million USD.                                      *)
ExchangeRateInit ==
    [current_rate |-> 110 * 100,
     real_effective_rate |-> One,
     foreign_reserves |-> 35000,
     annual_depreciation |-> 300,
     volatility |-> 500,
     intervention_threshold |-> 800,
     intervention_strength |-> 6000,
     export_elasticity |-> 7000,
     import_elasticity |-> 6000,
     remittance_sensitivity |-> 4000]

(* the balance of payments and the policy stance the engine passes *)
EngineBalanceOfPayments ==
    [exports |-> 50000, imports |-> 60000, remittances |-> 20000, fdi |-> 3000,
     aid_loans |-> 1000, profit_repatriation |-> 1500, other_outflows |-> 500]
(* base_pressure divides by imports after foreign_reserves was updated *)
ExchangeRateRaises(balance_of_payments) == Get(balance_of_payments, "imports", 0) = 0

(* a central bank that steps in whatever the pressure is *)
IntervenesAtAnyPressure(m, potential_depreciation, intervention_stance) ==
    intervention_stance > 3000

(* the condition under which the central bank intervenes *)
Intervenes(m, potential_depreciation, intervention_stance) ==
    Abs(potential_depreciation) > m.intervention_threshold /\ intervention_stance > 3000

(* an intervention that takes the whole depreciation away *)
InterventionEffectivenessFull(m, intervention_stance) == One

(* the fraction of the depreciation an intervention takes away *)
InterventionEffectiveness(m, intervention_stance) ==
    Min((m.intervention_strength * intervention_stance) \div One, 8000)

(* ExchangeRateModel.simulate_exchange_rate *)
SimulateExchangeRate(m, rng, yi, balance_of_payments, central_bank_policy, global_conditions) ==
    LET exports == Get(balance_of_payments, "exports", 0)
        imports == Get(balance_of_payments, "imports", 0)
        trade_balance == exports - imports
        current_account_balance == trade_balance + Get(balance_of_payments, "remittances", 0)
                                   - Get(balance_of_payments, "profit_repatriation", 0)
        capital_account_balance == Get(balance_of_payments, "fdi", 0)
                                   + Get(balance_of_payments, "aid_loans", 0)
                                   - Get(balance_of_payments, "other_outflows", 0)
        overall_balance == current_account_balance + capital_account_balance
        reserves == m.foreign_reserves + overall_balance
        \* in months of imports, fixed point
        reserve_months == IF imports > 0 THEN ((reserves * 1200) \div imports) * 100 ELSE 12 * One
        reserve_pressure == IF reserve_months < 6 * One
                            THEN Clamp(0, One, (3 * One - reserve_months) \div 3) ELSE 0
        base_pressure == (-3 * ((overall_balance * One) \div imports)) \div 10
                         + (2 * Get(global_conditions, "dollar_index", One)) \div 10
                         - Get(global_conditions, "global_risk_appetite", 5000) \div 10
                         + (15 * Get(global_conditions, "regional_currency_trends", 0)) \div 100
                         + (25 * Get(global_conditions, "oil_price_change", 0)) \div 100
                         + (2 * reserve_pressure) \div 10
        x == RngNext(rng)
        market_volatility == Normal(x, m.volatility)
        total_pressure == base_pressure + market_volatility
        potential_depreciation == m.annual_depreciation + total_pressure \div 10
        intervention_stance == Get(central_bank_policy, "intervention_stance", 5000)
        intervenes == Intervenes(m, potential_depreciation, intervention_stance)
        intervention_effectiveness == InterventionEffectiveness(m, intervention_stance)
        actual_depreciation == IF intervenes
                               THEN (potential_depreciation * (One - intervention_effectiveness)) \div One
                               ELSE potential_depreciation
        intervention_cost == IF intervenes
                             THEN (Abs(potential_depreciation - actual_depreciation) * imports * 5)
                                  \div (10 * One)
                             ELSE 0
        new == [m EXCEPT !.foreign_reserves = reserves - intervention_cost,
                         !.current_rate = (m.current_rate * (One + actual_depreciation)) \div One,
                         !.real_effective_rate =
                             (m.real_effective_rate * (One + actual_depreciation - 200)) \div One]
    IN  [m |-> new, rng |-> x,
         result |-> [year_index |-> yi,
                     exchange_rate |-> new.current_rate,
                     real_effective_rate |-> new.real_effective_rate,
                     depreciation_rate |-> actual_depreciation,
                     potential_depreciation |-> potential_depreciation,
                     foreign_reserves |-> new.foreign_reserves,
                     reserve_months |-> reserve_months,
                     trade_balance |-> trade_balance,
                     current_account_balance |-> current_account_balance,
                     capital_account_balance |-> capital_account_balance,
                     overall_balance |-> overall_balance,
                     intervention_cost |-> intervention_cost,
                     export_impact |-> (m.export_elasticity * actual_depreciation) \div One,
                     import_impact |-> (-m.import_elasticity * actual_depreciation) \div One,
                     remittance_impact |-> (m.remittance_sensitivity * actual_depreciation) \div One,
                     market_volatility |-> market_volatility,
                     exchange_rate_pressure |-> base_pressure]]

(* ComplianceModel and its three sub-models.  Levels are in fixed point,   *)
(* wages in USD cents.                                                     *)

LaborOrder == <<"wage_compliance", "safety_compliance", "working_hours_compliance",
                "child_labor_compliance", "union_rights_compliance">>
AreaOrder == <<"water_treatment", "air_emissions", "chemical_management",
               "waste_management", "energy_efficiency">>
ProductSectorOrder == <<"rmg", "pharma", "food", "electronics", "other">>
(* LaborStandardsModel.__init__ *)
LaborInit(c) ==
    [minimum_wage |-> 7500,
     wage_growth |-> Get(c, "minimum_wage_growth", 800),
     compliance_cost |-> Get(c, "compliance_cost", 300),
     standards |-> [wage_compliance |-> 7000, safety_compliance |-> 8000,
                    working_hours_compliance |-> 6000, child_labor_compliance |-> 9000,
                    union_rights_compliance |-> 5000],
     unrest_risk |-> 3000,
     living_wage |-> 15000,
     living_wage_growth |-> 400,
     historical_standards |-> EmptyDict]

(* EnvironmentalComplianceModel.__init__ *)
EnvironmentalInit(c) ==
    [carbon_border_tax |-> Get(c, "carbon_border_tax", EmptyDict),
     green_certification |->
         [certification_premium |-> Get(c, "green_certification_premium", 500),
          adoption_rate |-> Get(c, "certification_adoption_rate", 1000),
          current_adoption |-> 2000],
     compliance_areas |-> [water_treatment |-> 6000, air_emissions |-> 5000,
                           chemical_management |-> 7000, waste_management |-> 6000,
                           energy_efficiency |-> 4000],
     carbon_intensity |-> 8000,
     historical_compliance |-> EmptyDict]

(* ProductStandardsModel.__init__ *)
ProductInit(c) ==
    [testing_capacity |-> 5000,
     testing_improvement |-> Get(c, "testing_capacity_improvement", 800),
     compliance_capability |-> 6000,
     capability_improvement |-> Get(c, "compliance_capability_improvement", 700),
     sector_standards |->
         [rmg |-> [current_requirements |-> 6000, current_compliance |-> 7000,
                   growth_rate |-> 400],
          pharma |-> [current_requirements |-> 8000, current_compliance |-> 8000,
                      growth_rate |-> 500],
          food |-> [current_requirements |-> 7000, current_compliance |-> 6000,
                    growth_rate |-> 600],
          electronics |-> [current_requirements |-> 7500, current_compliance |-> 5500,
                           growth_rate |-> 500],
          other |-> [current_requirements |-> 6000, current_compliance |-> 6000,
                     growth_rate |-> 400]],
     certifications |-> [iso9001 |-> 4000, iso14001 |-> 3000, halal |-> 5000,
                         gmp |-> 6000, other |-> 3000],
     historical_standards |-> EmptyDict]

(* ComplianceModel.__init__ *)
ComplianceInit(c) ==
    [labor |-> LaborInit(Get(c, "labor_standards", EmptyDict)),
     environmental |-> EnvironmentalInit(Get(c, "environmental_standards", EmptyDict)),
     product |-> ProductInit(Get(c, "product_standards", EmptyDict)),
     historical_compliance |-> EmptyDict]

(* 0.8 + 0.4 * pressure *)
PressureFactor(pressure) == 8000 + (4000 * pressure) \div One

(* a level moved by the improvement whatever its sign *)
ImprovedLevelUnfloored(level, base_improvement, variation, cap) ==
    Min(cap, level + (base_improvement * (One - level \div 2)) \div One + variation)

(* improvement = base_improvement * (1 - level * 0.5) + variation;         *)
(* min(cap, max(level + improvement, level))                               *)
ImprovedLevel(level, base_improvement, variation, cap) ==
    Min(cap, Max(level + (base_improvement * (One - level \div 2)) \div One + variation,
                 level))

RECURSIVE ImproveLevels(_, _, _, _, _)
(* the loop over the levels of a sub-model, one normal draw each *)
ImproveLevels(order, levels, rng, bases, cap) ==
    IF order = <<>> THEN [levels |-> levels, rng |-> rng]
    ELSE LET a == Head(order)
             x == RngNext(rng)
         IN  ImproveLevels(Tail(order),
                           [levels EXCEPT ![a] = ImprovedLevel(@, bases[a], Normal(x, 100), cap)],
                           x, bases, cap)

Average(levels, order) == SumSeq([k \in DOMAIN order |-> levels[order[k]]]) \div Len(order)

(* LaborStandardsModel.simulate_standards *)
LaborSimulateStandards(m, rng, yi, y, regulatory_pressure, buyer_requirements) ==
    LET effective_wage_growth == (m.wage_growth * PressureFactor(regulatory_pressure)) \div One
        minimum_wage == (m.minimum_wage * (One + effective_wage_growth)) \div One
        living_wage == (m.living_wage * (One + m.living_wage_growth)) \div One
        living_wage_gap == Max(0, ((living_wage - minimum_wage) * One) \div living_wage)
        base_improvement == (200 * regulatory_pressure + 300 * buyer_requirements) \div One
        improved == ImproveLevels(LaborOrder, m.standards, rng,
                                  [a \in DOMAIN m.standards |-> base_improvement], 9800)
        avg_compliance == Average(improved.levels, LaborOrder)
        total_compliance_cost == (m.compliance_cost * avg_compliance) \div One
                                 + effective_wage_growth \div 2
        market_premium == (avg_compliance * 2) \div 100 + (buyer_requirements * 4) \div 100
        risk_change == (2 * living_wage_gap) \div 100 - (2 * effective_wage_growth) \div 100
                       - (avg_compliance - 7000) \div 100
        unrest_risk == Clamp(500, 8000, m.unrest_risk + risk_change)
        unrest_probability == (unrest_risk * (One - (regulatory_pressure * 3) \div 10)) \div One
        x == RngNext(improved.rng)
        results == [year_index |-> yi, simulation_year |-> y,
                    minimum_wage |-> minimum_wage,
                    minimum_wage_growth |-> effective_wage_growth,
                    living_wage |-> living_wage,
                    living_wage_gap |-> living_wage_gap,
                    standards_compliance |-> improved.levels,
                    average_compliance |-> avg_compliance,
                    compliance_cost |-> total_compliance_cost,
                    market_premium |-> market_premium,
                    unrest_risk |-> unrest_risk,
                    unrest_occurs |-> Below(x, unrest_probability)]
    IN  [m |-> [m EXCEPT !.minimum_wage = minimum_wage,
                         !.living_wage = living_wage,
                         !.standards = improved.levels,
                         !.unrest_risk = unrest_risk,
                         !.historical_standards = (yi :> results) @@ @],
         rng |-> x,
         result |-> results]

(* EnvironmentalComplianceModel.simulate_compliance *)
EnvironmentalSimulateCompliance(m, rng, yi, y, regulatory_pressure, buyer_requirements) ==
    LET tax == m.carbon_border_tax
        carbon_tax_implemented ==
            "implementation_year" \in DOMAIN tax /\ y >= tax["implementation_year"]
        carbon_tax_rate ==
            IF carbon_tax_implemented
            THEN Get(tax, "initial_level", 200)
                 + (y - tax["implementation_year"]) * Get(tax, "annual_increase", 50)
            ELSE 0
        base_increase == (m.green_certification.adoption_rate
                          * PressureFactor(buyer_requirements)) \div One
        adjusted_increase == IF carbon_tax_implemented
                             THEN (base_increase * (One + carbon_tax_rate * 5)) \div One
                             ELSE base_increase
        current_adoption == Min(9000, m.green_certification.current_adoption + adjusted_increase)
        base_improvement == (200 * regulatory_pressure + 200 * buyer_requirements) \div One
        bases == [a \in DOMAIN m.compliance_areas |->
                     IF carbon_tax_implemented /\ a \in {"air_emissions", "energy_efficiency"}
                     THEN base_improvement + carbon_tax_rate \div 2
                     ELSE base_improvement]
        improved == ImproveLevels(AreaOrder, m.compliance_areas, rng, bases, 9500)
        carbon_reduction ==
            (100 * (improved.levels["energy_efficiency"] - 4000) * 2) \div One
            + (50 * (improved.levels["air_emissions"] - 5000) * 2) \div One
            + (IF carbon_tax_implemented THEN (carbon_tax_rate * 3) \div 10 ELSE 0)
        carbon_intensity == Max(4000, m.carbon_intensity - carbon_reduction)
        avg_compliance == Average(improved.levels, AreaOrder)
        total_compliance_cost ==
            (200 * avg_compliance) \div One
            + (IF carbon_tax_implemented THEN (carbon_tax_rate * carbon_intensity) \div One ELSE 0)
            + current_adoption \div 100
        market_premium ==
            (current_adoption * m.green_certification.certification_premium) \div One
            + (((avg_compliance * 300) \div One) * buyer_requirements) \div One
        results == [year_index |-> yi, simulation_year |-> y,
                    carbon_tax_implemented |-> carbon_tax_implemented,
                    carbon_tax_rate |-> carbon_tax_rate,
                    green_certification_adoption |-> current_adoption,
                    compliance_areas |-> improved.levels,
                    average_compliance |-> avg_compliance,
                    carbon_intensity |-> carbon_intensity,
                    compliance_cost |-> total_compliance_cost,
                    market_premium |-> market_premium]
    IN  [m |-> [m EXCEPT !.green_certification.current_adoption = current_adoption,
                         !.compliance_areas = improved.levels,
                         !.carbon_intensity = carbon_intensity,
                         !.historical_compliance = (yi :> results) @@ @],
         rng |-> improved.rng,
         result |-> results]

(* new_compliance = min(0.95, max(0.3, current_compliance + compliance_improvement)) *)
ProductNewCompliance(current_compliance, compliance_improvement) ==
    Min(9500, Max(3000, current_compliance + compliance_improvement))

(* ProductStandardsModel.simulate_standards; it draws no random number *)
ProductSimulateStandards(m, yi, y, regulatory_pressure, buyer_requirements) ==
    LET capacity_increase == (m.testing_improvement * PressureFactor(regulatory_pressure)) \div One
        testing_capacity ==
            Min(9500, m.testing_capacity
                      + (capacity_increase * (One - m.testing_capacity \div 2)) \div One)
        capability_increase ==
            (m.capability_improvement * PressureFactor(buyer_requirements)) \div One
        compliance_capability ==
            Min(9500, m.compliance_capability
                      + (capability_increase * (One - m.compliance_capability \div 2)) \div One)
        updated(standards) ==
            LET effective_growth ==
                    (standards.growth_rate * PressureFactor(buyer_requirements)) \div One
                new_requirements ==
                    Min(9500, standards.current_requirements
                              + (effective_growth * standards.current_requirements) \div One)
                compliance_gap == new_requirements - standards.current_compliance
                compliance_improvement ==
                    (300 * testing_capacity + 400 * compliance_capability
                     + 200 * regulatory_pressure - 500 * compliance_gap) \div One
            IN  [standards EXCEPT
                     !.current_requirements = new_requirements,
                     !.current_compliance =
                         ProductNewCompliance(standards.current_compliance,
                                              compliance_improvement)]
        sector_standards == [s \in DOMAIN m.sector_standards |-> updated(m.sector_standards[s])]
        sector_results ==
            [s \in DOMAIN sector_standards |->
                [requirements |-> sector_standards[s].current_requirements,
                 compliance |-> sector_standards[s].current_compliance,
                 gap |-> sector_standards[s].current_requirements
                         - sector_standards[s].current_compliance]]
        adjusted_increase ==
            (((300 * PressureFactor(buyer_requirements)) \div One)
             * PressureFactor(compliance_capability)) \div One
        certifications ==
            [c \in DOMAIN m.certifications |->
                Min(9000, m.certifications[c]
                          + (adjusted_increase * (One - (m.certifications[c] * 7) \div 10))
                            \div One)]
        avg_requirements ==
            SumSeq([k \in DOMAIN ProductSectorOrder |->
                       sector_results[ProductSectorOrder[k]].requirements])
            \div Len(ProductSectorOrder)
        avg_compliance ==
            SumSeq([k \in DOMAIN ProductSectorOrder |->
                       sector_results[ProductSectorOrder[k]].compliance])
            \div Len(ProductSectorOrder)
        avg_gap == avg_requirements - avg_compliance
        avg_certification == Average(certifications, <<"iso9001", "iso14001", "halal", "gmp", "other">>)
        total_compliance_cost == (200 * avg_requirements) \div One + (300 * avg_gap) \div One
                                 + (100 * avg_certification) \div One
        market_premium == (300 * avg_certification) \div One
                          + (((400 * avg_compliance) \div One) * buyer_requirements) \div One
        results == [year_index |-> yi, simulation_year |-> y,
                    testing_capacity |-> testing_capacity,
                    compliance_capability |-> compliance_capability,
                    sector_standards |-> sector_results,
                    certifications |-> certifications,
                    average_requirements |-> avg_requirements,
                    average_compliance |-> avg_compliance,
                    average_gap |-> avg_gap,
                    compliance_cost |-> total_compliance_cost,
                    market_premium |-> market_premium]
    IN  [m |-> [m EXCEPT !.testing_capacity = testing_capacity,
                         !.compliance_capability = compliance_capability,
                         !.sector_standards = sector_standards,
                         !.certifications = certifications,
                         !.historical_standards = (yi :> results) @@ @],
         result |-> results]

(* ComplianceModel.simulate_compliance_environment *)
SimulateComplianceEnvironment(m, rng, yi, y, regulatory_developments, buyer_requirements) ==
    LET labor == LaborSimulateStandards(m.labor, rng, yi, y,
                                        regulatory_developments, buyer_requirements)
        environmental == EnvironmentalSimulateCompliance(m.environmental, labor.rng, yi, y,
                                                         regulatory_developments,
                                                         buyer_requirements)
        product == ProductSimulateStandards(m.product, yi, y,
                                            regulatory_developments, buyer_requirements)
        total_compliance_cost == (labor.result.compliance_cost * 4) \div 10
                                 + (environmental.result.compliance_cost * 3) \div 10
                                 + (product.result.compliance_cost * 3) \div 10
        total_market_premium == (labor.result.market_premium * 3) \div 10
                                + (environmental.result.market_premium * 4) \div 10
                                + (product.result.market_premium * 3) \div 10
        results == [year_index |-> yi, simulation_year |-> y,
                    labor_standards |-> labor.result,
                    environmental_compliance |-> environmental.result,
                    product_standards |-> product.result,
                    total_compliance_cost |-> total_compliance_cost,
                    total_market_premium |-> total_market_premium,
                    net_compliance_impact |-> total_market_premium - total_compliance_cost]
    IN  [m |-> [labor |-> labor.m, environmental |-> environmental.m, product |-> product.m,
                historical_compliance |-> (yi :> results) @@ m.historical_compliance],
         rng |-> environmental.rng,
         result |-> results]

(* DigitalTradeModel.simulate_step, reduced to the adoption rate and the services exports *)
DigitalTradeStep(rng, y) ==
    LET x == RngNext(rng)
    IN  [rng |-> x,
         result |-> [ecommerce_adoption_rate |->
                         Min(9500, 1500 + 300 * (y - StartYear + 1) + Uniform(x, -100, 100)),
                     digital_services_exports |-> 800 + 100 * (y - StartYear + 1)]]

(* ServicesTradeModel.simulate_step, reduced to the remittance inflow and the tourism earnings *)
ServicesTradeStep(rng, y) ==
    LET x == RngNext(rng)
    IN  [rng |-> x,
         result |-> [remittance_inflow |-> 22000 + 1000 * (y - StartYear + 1) + Uniform(x, -500, 500),
                     tourism_earnings |-> 400 + 20 * (y - StartYear + 1)]]

----------------------------------------------------------------------------
(* StructuralTransformationModel.  Sector values are in 0.01 billion USD.  *)
(* xs is the sequence of draws the step consumes, in order.                *)

StructSectorOrder == <<"rmg", "it_services">>
StructSectors == {StructSectorOrder[i] : i \in DOMAIN StructSectorOrder}

DefaultExportSectors ==
    [rmg |-> [value |-> 3800, complexity |-> 3000, value_chain_position |-> 2500],
     it_services |-> [value |-> 130, complexity |-> 8000, value_chain_position |-> 6000]]

(* StructuralTransformationModel.__init__: sector_mapper says whether the  *)
(* SectorMapper could be built, data_handler whether a data handler holds  *)
(* loaded data.                                                            *)
StructInit(export_sectors, sector_mapper, data_handler) ==
    [export_sectors |-> export_sectors,
     sector_mapper |-> sector_mapper,
     data_handler |-> data_handler,
     capability_index |-> 3500,
     industrial_policy_effectiveness |-> 5000]

(* a step that turns to the data handler before the sector mapper *)
DataSourceHandlerFirst(m, mapped, handled) ==
    IF m.data_handler /\ handled.status = "data"
    THEN [kind |-> "real_data", values |-> handled.values, positions |-> handled.positions]
    ELSE IF m.sector_mapper /\ mapped.status = "data"
         THEN [kind |-> "sector_data", export_data |-> mapped.export_data]
         ELSE [kind |-> "synthetic"]

(* The data branch of simulate_step.  mapped is what process_trade_data    *)
(* does for the year and handled what get_data_by_year does: either        *)
(* [status |-> "raises"], [status |-> "empty"] or [status |-> "data", ...] *)
DataSource(m, mapped, handled) ==
    IF m.sector_mapper
    THEN IF mapped.status = "data"
         THEN [kind |-> "sector_data", export_data |-> mapped.export_data]
         ELSE [kind |-> "synthetic"]
    ELSE IF m.data_handler /\ handled.status = "data"
         THEN [kind |-> "real_data", values |-> handled.values, positions |-> handled.positions]
         ELSE [kind |-> "synthetic"]

(* 0.02 * sin((year - 2025) * 0.5), tabulated *)
PolicyCycle(y) ==
    LET table == <<0, 96, 168, 199, 182, 120, 28>>
        k == y - 2025 + 1
    IN  IF k \in DOMAIN table THEN table[k] ELSE 0

(* update_from_sector_data: values present in the trade data replace the model's *)
UpdateFromSectorData(m, export_data) ==
    [m EXCEPT !.export_sectors =
        [s \in DOMAIN @ |-> IF s \in DOMAIN export_data
                            THEN [@[s] EXCEPT !.value = export_data[s]] ELSE @[s]]]

(* update_from_real_data: values, and the positions when the data has that column *)
UpdateFromRealData(m, values, positions) ==
    [m EXCEPT !.export_sectors =
        [s \in DOMAIN @ |->
            [@[s] EXCEPT !.value = IF s \in DOMAIN values THEN values[s] ELSE @,
                         !.value_chain_position =
                             IF s \in DOMAIN positions THEN positions[s] ELSE @]]]

(* simulate_with_synthetic_data; xs[i] is the draw of the i-th sector *)
SimulateWithSyntheticData(m, xs) ==
    [m EXCEPT !.export_sectors =
        [s \in DOMAIN @ |->
            LET data == m.export_sectors[s]
                i == CHOOSE j \in DOMAIN StructSectorOrder : StructSectorOrder[j] = s
                growth_rate == 500 + (data.complexity * 5) \div 100
                               + (data.value_chain_position * 4) \div 100
                               + Uniform(xs[i], -400, 800)
                               + (IF m.industrial_policy_effectiveness > 6000
                                     /\ data.complexity > 5000 THEN 300 ELSE 0)
            IN  [data EXCEPT !.value = (data.value * (One + growth_rate)) \div One]]]

(* calculate_export_diversification divides by the total of the values *)
DiversificationRaises(m) ==
    SumSeq([i \in DOMAIN StructSectorOrder |-> m.export_sectors[StructSectorOrder[i]].value]) = 0

(* an index that adds up the squared values over the total, not the squared shares *)
CalculateExportDiversificationUnnormalised(m) ==
    LET total_exports ==
            SumSeq([i \in DOMAIN StructSectorOrder |-> m.export_sectors[StructSectorOrder[i]].value])
    IN  SumSeq([i \in DOMAIN StructSectorOrder |->
                   m.export_sectors[StructSectorOrder[i]].value
                   * m.export_sectors[StructSectorOrder[i]].value]) \div total_exports

CalculateExportDiversification(m) ==
    LET total_exports ==
            SumSeq([i \in DOMAIN StructSectorOrder |-> m.export_sectors[StructSectorOrder[i]].value])
        share(s) == (m.export_sectors[s].value * One) \div total_exports
    IN  SumSeq([i \in DOMAIN StructSectorOrder |->
                   (share(StructSectorOrder[i]) * share(StructSectorOrder[i])) \div One])

(* an upgrade whose random effect is uniform(-0.05, 0.015) *)
UpgradedPositionWideNoise(data, capability_index, x) ==
    LET total_upgrade == 100 + (capability_index * 2) \div 100 + data.complexity \div 100
                         + Uniform(x, -500, 150)
        diminishing_factor == One - (data.value_chain_position * 7) \div 10
    IN  Min(9500, data.value_chain_position + (total_upgrade * diminishing_factor) \div One)

(* the new position of one sector in simulate_value_chain_upgrading *)
UpgradedPosition(data, capability_index, x) ==
    LET total_upgrade == 100 + (capability_index * 2) \div 100 + data.complexity \div 100
                         + Uniform(x, -50, 150)
        diminishing_factor == One - (data.value_chain_position * 7) \div 10
    IN  Min(9500, data.value_chain_position + (total_upgrade * diminishing_factor) \div One)

(* simulate_value_chain_upgrading; xs[i] is the draw of the i-th sector *)
SimulateValueChainUpgrading(m, xs) ==
    [m EXCEPT !.export_sectors =
        [s \in DOMAIN @ |->
            LET i == CHOOSE j \in DOMAIN StructSectorOrder : StructSectorOrder[j] = s
            IN  [@[s] EXCEPT !.value_chain_position =
                     UpgradedPosition(m.export_sectors[s], m.capability_index, xs[i])]]]

(* simulate_capability_development *)
SimulateCapabilityDevelopment(m, x) ==
    LET n == Len(StructSectorOrder)
        vcp_sum == SumSeq([i \in DOMAIN StructSectorOrder |->
                              m.export_sectors[StructSectorOrder[i]].value_chain_position])
        total_improvement == 80 + (vcp_sum \div n) \div 100
                             + m.industrial_policy_effectiveness \div 100
                             + Uniform(x, -50, 100)
        diminishing_factor == One - (m.capability_index * 5) \div 10
    IN  [m EXCEPT !.capability_index =
            Min(9500, @ + (total_improvement * diminishing_factor) \div One)]

(* integrate_industrial_policy *)
IntegrateIndustrialPolicy(m, y, x) ==
    [m EXCEPT !.industrial_policy_effectiveness =
        Clamp(2000, 9000, @ + 100 + PolicyCycle(y) + Uniform(x, -400, 400))]

(* the number of draws simulate_step consumes *)
StructDraws(synthetic) ==
    (IF synthetic THEN 2 ELSE 1) * Len(StructSectorOrder) + 2

(* StructuralTransformationModel.simulate_step; source is what the data    *)
(* branch found for the year.                                              *)
StructuralStep(m, y, source, xs) ==
    LET n == Len(StructSectorOrder)
        synthetic == source.kind = "synthetic"
        off == IF synthetic THEN n ELSE 0
        m1 == IF source.kind = "sector_data" THEN UpdateFromSectorData(m, source.export_data)
              ELSE IF source.kind = "real_data"
                   THEN UpdateFromRealData(m, source.values, source.positions)
                   ELSE SimulateWithSyntheticData(m, SubSeq(xs, 1, n))
        m2 == SimulateValueChainUpgrading(m1, SubSeq(xs, off + 1, off + n))
        m3 == SimulateCapabilityDevelopment(m2, xs[off + n + 1])
        m4 == IntegrateIndustrialPolicy(m3, y, xs[off + n + 2])
    IN  IF DiversificationRaises(m1)
        THEN [m |-> m1, raised |-> TRUE, result |-> EmptyDict]
        ELSE [m |-> m4, raised |-> FALSE,
              result |-> [export_diversity_hhi |-> CalculateExportDiversification(m1),
                          export_sectors |-> [s \in DOMAIN m4.export_sectors |->
                                                 m4.export_sectors[s].value],
                          value_chain_position |-> [s \in DOMAIN m4.export_sectors |->
                                                       m4.export_sectors[s].value_chain_position],
                          capability_index |-> m4.capability_index,
                          industrial_policy_effectiveness |-> m4.industrial_policy_effectiveness]]

----------------------------------------------------------------------------
(* ExportSectorModel *)

RECURSIVE SumDict(_)
SumDict(d) ==
    IF DOMAIN d = {} THEN 0
    ELSE LET k == CHOOSE k \in DOMAIN d : TRUE
         IN  d[k] + SumDict([j \in DOMAIN d \ {k} |-> d[j]])

(* _calculate_overall_competitiveness *)
CalculateOverallCompetitiveness(competitiveness_factors) ==
    IF DOMAIN competitiveness_factors = {} THEN 5000
    ELSE SumDict(competitiveness_factors) \div Cardinality(DOMAIN competitiveness_factors)

(* ExportSectorModel.__init__, with the defaults initialize_models passes *)
ExportSectorInit(sector_cfg) ==
    LET current_volume == Get(sector_cfg, "current_volume", 0)
        global_market_share == Get(sector_cfg, "global_market_share", 0)
        competitiveness_factors == Get(sector_cfg, "competitiveness_factors", EmptyDict)
    IN  [current_volume |-> current_volume,
         base_growth_rate |-> Get(sector_cfg, "growth_trajectory", 0),
         global_market_share |-> global_market_share,
         competitiveness_factors |-> competitiveness_factors,
         tariff_exposure |-> Get(sector_cfg, "tariff_exposure", 0),
         historical_volumes |-> (0 :> current_volume),
         historical_market_shares |-> (0 :> global_market_share),
         historical_competitiveness |->
             (0 :> CalculateOverallCompetitiveness(competitiveness_factors))]

(* a demand adjustment whose neutral point is a demand growth of 0.02 *)
AdjustedGrowthOtherBaseline(base_growth_rate, global_demand_growth) ==
    (base_growth_rate * (One + (5 * (global_demand_growth - 200)) \div 10)) \div One

(* the base growth adjusted for global demand, neutral at a demand growth of 0.03 *)
AdjustedGrowth(base_growth_rate, global_demand_growth) ==
    (base_growth_rate * (One + (5 * (global_demand_growth - 300)) \div 10)) \div One

(* the competitiveness moved by a tenth of the change, with no constraint *)
NewCompetitivenessUnconstrained(prev_competitiveness, competitiveness_change) ==
    prev_competitiveness + competitiveness_change \div 10

(* new_competitiveness = max(0.1, min(1.0, prev_competitiveness + competitiveness_change * 0.1)) *)
NewCompetitiveness(prev_competitiveness, competitiveness_change) ==
    Max(1000, Min(One, prev_competitiveness + competitiveness_change \div 10))

(* ExportSectorModel.simulate_year; in is the keyword arguments *)
ExportSimulateYear(m, name, yi, in, rng) ==
    LET prev_volume == Get(m.historical_volumes, yi - 1, m.current_volume)
        prev_competitiveness == Get(m.historical_competitiveness, yi - 1,
                                    CalculateOverallCompetitiveness(m.competitiveness_factors))
        prev_market_share == Get(m.historical_market_shares, yi - 1, m.global_market_share)
        adjusted_growth == AdjustedGrowth(m.base_growth_rate, in.global_demand_growth)
        weighted_tariff_impact ==
            IF DOMAIN in.tariff_changes # {}
            THEN -(((SumDict(in.tariff_changes) \div Cardinality(DOMAIN in.tariff_changes))
                    * m.tariff_exposure) \div One)
            ELSE 0
        competitiveness_change == (2 * in.exchange_rate_impact
                                   + 3 * (in.logistics_performance - 6000)
                                   + 2 * in.trade_policy_impact
                                   + in.digital_adoption
                                   - 2 * in.compliance_impact) \div 10
        new_competitiveness == NewCompetitiveness(prev_competitiveness, competitiveness_change)
        competitor_impact ==
            -((2 * (SumDict(in.competitor_growth)
                    - Cardinality(DOMAIN in.competitor_growth) * m.base_growth_rate)) \div 10)
        x == RngNext(rng)
        random_variation == Normal(x, 200)
        effective_growth_rate == adjusted_growth + weighted_tariff_impact
                                 + (new_competitiveness - prev_competitiveness) * 2
                                 + competitor_impact + random_variation
        new_volume == (prev_volume * (One + effective_growth_rate)) \div One
        market_share_change == (2 * (effective_growth_rate - in.global_demand_growth)) \div 10
        new_market_share == Clamp(0, One, (prev_market_share * (One + market_share_change)) \div One)
    IN  [m |-> [m EXCEPT !.historical_volumes = (yi :> new_volume) @@ @,
                         !.historical_market_shares = (yi :> new_market_share) @@ @,
                         !.historical_competitiveness = (yi :> new_competitiveness) @@ @],
         rng |-> x,
         result |-> [sector_name |-> name,
                     year_index |-> yi,
                     export_volume |-> new_volume,
                     growth_rate |-> effective_growth_rate,
                     global_market_share |-> new_market_share,
                     competitiveness |-> new_competitiveness,
                     tariff_impact |-> weighted_tariff_impact,
                     exchange_rate_impact |-> in.exchange_rate_impact,
                     logistics_impact |-> in.logistics_performance - 6000,
                     trade_policy_impact |-> in.trade_policy_impact,
                     compliance_impact |-> in.compliance_impact,
                     competitor_impact |-> competitor_impact,
                     random_variation |-> random_variation]]

(* The attributes the __init__ of RMGSectorModel, EmergingSectorModel and  *)
(* TraditionalSectorModel add to those of the base class; attributes that  *)
(* are only stored are left out.                                           *)
SpecialisedInit(class, sector_cfg) ==
    (IF class = "RMGSectorModel"
     THEN [class |-> class, buyer_concentration |-> 7000, fashion_responsiveness |-> 6000,
           backward_linkage_development |-> 4000]
     ELSE IF class = "EmergingSectorModel"
     THEN [class |-> class, niche_market_penetration |-> 3000,
           product_quality_level |-> 6000, patent_count |-> 5, global_reputation |-> 4000]
     ELSE [class |-> class, processing_technology_level |-> 4000,
           certification_coverage |-> 2000, specialty_market_share |-> 1000])
    @@ ExportSectorInit(sector_cfg)

(* RMGSectorModel.simulate_year: the base result, its export_volume        *)
(* multiplied by 1 + compliance_cost_impact = 0.96 after the base class    *)
(* has stored the year                                                     *)
RmgSimulateYear(m, name, yi, in, rng) ==
    LET Extend(r) ==
            LET fashion_responsiveness == Min(9000, m.fashion_responsiveness + 200)
                backward_linkage_development == Min(8000, m.backward_linkage_development + 150)
                compliance_cost_impact == -(((5000 + 3000 + 4000) \div 3) \div 10)
            IN  [m |-> [r.m EXCEPT !.fashion_responsiveness = fashion_responsiveness,
                                   !.backward_linkage_development =
                                       backward_linkage_development],
                 rng |-> r.rng,
                 result |-> [fashion_responsiveness |-> fashion_responsiveness,
                             backward_linkage_development |-> backward_linkage_development,
                             buyer_concentration |-> Max(5000, m.buyer_concentration - 100)]
                            @@ [r.result EXCEPT !.export_volume =
                                    (@ * (One + compliance_cost_impact)) \div One]]
    IN  Extend(ExportSimulateYear(m, name, yi, in, rng))

(* EmergingSectorModel.simulate_year: the base result, its export_volume   *)
(* multiplied by the reputation premium; the Poisson draw of the new       *)
(* patents is cut to 0..3                                                  *)
EmergingSimulateYear(m, name, yi, in, rng) ==
    LET Extend(r) ==
            LET quality_improvement == (300 * 5000) \div One
                product_quality_level == Min(9500, m.product_quality_level + quality_improvement)
                niche_market_penetration ==
                    Min(8000, m.niche_market_penetration + (400 * product_quality_level) \div One)
                x == RngNext(r.rng)
                patent_count == m.patent_count + (x % 4)
                global_reputation ==
                    Min(9000, m.global_reputation + (300 * product_quality_level) \div One)
                premium_factor == One + (global_reputation * 2) \div 10
            IN  [m |-> [r.m EXCEPT !.product_quality_level = product_quality_level,
                                   !.niche_market_penetration = niche_market_penetration,
                                   !.patent_count = patent_count,
                                   !.global_reputation = global_reputation],
                 rng |-> x,
                 result |-> [product_quality |-> product_quality_level,
                             niche_market_penetration |-> niche_market_penetration,
                             patent_count |-> patent_count,
                             global_reputation |-> global_reputation]
                            @@ [r.result EXCEPT !.export_volume =
                                    (@ * premium_factor) \div One]]
    IN  Extend(ExportSimulateYear(m, name, yi, in, rng))

(* TraditionalSectorModel.simulate_year: the base result, its              *)
(* export_volume multiplied by 1 + combined_effect + certification_premium *)
TraditionalSimulateYear(m, name, yi, in, rng) ==
    LET Extend(r) ==
            LET x1 == RngNext(r.rng)
                price_fluctuation == (Normal(x1, 1000) * 8) \div 10
                x2 == RngNext(x1)
                seasonal_effect == Uniform(x2, -1500, 1500)
                processing_technology_level ==
                    Min(9000, m.processing_technology_level + (200 * 5000) \div One)
                certification_coverage ==
                    Min(8000, m.certification_coverage + (300 * 5000) \div One)
                specialty_market_share ==
                    Min(6000, m.specialty_market_share + (400 * certification_coverage) \div One)
                climate_impact == -(((500 * 7000) \div One) * 5000) \div One
                combined_effect == price_fluctuation + seasonal_effect + climate_impact
                certification_premium == (certification_coverage * 3) \div 10
            IN  [m |-> [r.m EXCEPT !.processing_technology_level = processing_technology_level,
                                   !.certification_coverage = certification_coverage,
                                   !.specialty_market_share = specialty_market_share],
                 rng |-> x2,
                 result |-> [price_effect |-> price_fluctuation,
                             seasonal_effect |-> seasonal_effect,
                             climate_impact |-> climate_impact,
                             certification_premium |-> certification_premium,
                             processing_technology |-> processing_technology_level,
                             specialty_market_share |-> specialty_market_share]
                            @@ [r.result EXCEPT !.export_volume =
                                    (@ * (One + combined_effect + certification_premium))
                                    \div One]]
    IN  Extend(ExportSimulateYear(m, name, yi, in, rng))

----------------------------------------------------------------------------
(* ImportDependencyModel *)

ImportInit(category_cfg) ==
    LET current_volume == Get(category_cfg, "current_volume", 0)
        domestic_production_ratio == Get(category_cfg, "domestic_production_ratio", 0)
    IN  [current_volume |-> current_volume,
         domestic_production_ratio |-> domestic_production_ratio,
         base_growth_rate |-> Get(category_cfg, "growth_trajectory", 0),
         price_sensitivity |-> Get(category_cfg, "price_sensitivity", 5000),
         substitution_elasticity |-> Get(category_cfg, "substitution_elasticity", 5000),
         historical_volumes |-> (0 :> current_volume),
         historical_domestic_ratios |-> (0 :> domestic_production_ratio)]

(* ImportDependencyModel.simulate_import_needs *)
SimulateImportNeeds(m, name, yi, in, rng) ==
    LET prev_volume == Get(m.historical_volumes, yi - 1, m.current_volume)
        prev_domestic_ratio == Get(m.historical_domestic_ratios, yi - 1, m.domestic_production_ratio)
        prev_total_consumption == (prev_volume * One) \div (One - prev_domestic_ratio)
        new_total_consumption == (prev_total_consumption * (One + in.consumption_demand_growth)) \div One
        price_impact == in.exchange_rate_impact + in.tariff_changes
                        + Get(in.global_price_changes, name, 0) + in.logistics_cost \div 2
        price_elasticity_effect == -((price_impact * m.price_sensitivity) \div One)
        substitution_effect == IF price_impact > 0
                               THEN (price_impact * m.substitution_elasticity) \div One
                               ELSE (price_impact * m.substitution_elasticity) \div (2 * One)
        domestic_ratio_change == (in.domestic_production_growth * 3) \div 10
                                 + (in.domestic_capacity_investment * 2) \div 10
                                 + substitution_effect
        new_domestic_ratio == Clamp(1000, 9000, prev_domestic_ratio + (domestic_ratio_change * 5) \div 100)
        x == RngNext(rng)
        random_variation == Normal(x, 200)
        new_volume == (((((new_total_consumption * (One - new_domestic_ratio)) \div One)
                         * (One + price_elasticity_effect)) \div One)
                       * (One + random_variation)) \div One
        stored == [m EXCEPT !.historical_volumes = (yi :> new_volume) @@ @,
                            !.historical_domestic_ratios = (yi :> new_domestic_ratio) @@ @]
    IN  IF (Get(m.historical_domestic_ratios, yi - 1, m.domestic_production_ratio) = One) THEN [m |-> m, rng |-> rng, raised |-> TRUE, result |-> EmptyDict]
        ELSE IF (Get(m.historical_volumes, yi - 1, m.current_volume) = 0)
             THEN [m |-> stored, rng |-> x, raised |-> TRUE, result |-> EmptyDict]
             ELSE [m |-> stored, rng |-> x, raised |-> FALSE,
                   result |-> [category_name |-> name,
                               year_index |-> yi,
                               import_volume |-> new_volume,
                               growth_rate |-> (new_volume * One) \div prev_volume - One,
                               domestic_production_ratio |-> new_domestic_ratio,
                               total_consumption |-> new_total_consumption,
                               price_impact |-> price_impact,
                               price_elasticity_effect |-> price_elasticity_effect,
                               substitution_effect |-> substitution_effect,
                               random_variation |-> random_variation]]

----------------------------------------------------------------------------
(* TradeSimulationEngine *)

(* a call of model m in year y raises: the model is missing from           *)
(* self.models (KeyError), or the call is one the configuration makes fail *)
Raises(m, y) == m \notin models \/ <<m, y>> \in faultPlan

(* str(e) of the exception a failing call of m raises *)
Message(m) == IF m \in MacroKeys /\ m \notin models THEN "KeyError" ELSE "raised"

(* an except branch that stores nothing *)
ErrorMarkerDropped(msg) == EmptyDict

(* {'error': str(e)} *)
ErrorMarker(msg) == [error |-> msg]

YearIndex == year - StartYear

(* the step that follows macro model m when the models run in this order *)
NextInOrder(order, m) ==
    LET i == CHOOSE j \in DOMAIN order : order[j] = m
    IN  IF i < Len(order) THEN order[i + 1] ELSE "export"

(* an engine that runs logistics before investment *)
StepAfterSwapped(m) ==
    NextInOrder(<<"global_market", "geopolitical", "logistics", "trade_policy",
                  "investment", "exchange_rate", "compliance", "structural",
                  "digital_trade", "services_trade">>, m)

(* the step of simulate_year that follows macro model m *)
StepAfter(m) == NextInOrder(MacroOrder, m)

(* the locals of simulate_year before the first model call *)
NoLocals ==
    [global_conditions |-> EmptyDict, geopolitical_conditions |-> EmptyDict,
     investment_results |-> EmptyDict, trade_policy_results |-> EmptyDict,
     logistics_results |-> EmptyDict, exchange_rate_results |-> EmptyDict,
     compliance_results |-> EmptyDict, structural_transformation_results |-> EmptyDict,
     digital_trade_results |-> EmptyDict, services_trade_results |-> EmptyDict,
     sector_inputs |-> EmptyDict, category_inputs |-> EmptyDict,
     all_sector_results |-> EmptyDict, total_exports |-> 0,
     all_import_results |-> EmptyDict, total_imports |-> 0,
     i |-> 1]

(* before anything is constructed, the exchange-rate model aside *)
BlankEngine ==
    /\ config = cfg0
    /\ clock = 0
    /\ run = 1
    /\ models = {}
    /\ export_models = <<>>
    /\ import_models = <<>>
    /\ np_rng = 0
    /\ py_rng = 0
    /\ year = StartYear
    /\ step = "idle"
    /\ calls = <<>>
    /\ simulated = <<>>
    /\ yr = EmptyDict
    /\ loc = NoLocals
    /\ metadata = EmptyDict
    /\ yearly_data = EmptyDict
    /\ saved = EmptyDict
    /\ output = EmptyDict
    /\ heap = (TariffRatesRef :> EmptyDict)
    /\ geo = EmptyDict
    /\ inv = EmptyDict
    /\ sect = EmptyDict
    /\ imp = EmptyDict

(* before anything is constructed *)
Blank == BlankEngine /\ exch = EmptyDict /\ trade_policy = EmptyDict /\ compliance = EmptyDict

Init ==
    /\ \E seed \in Seeds, save \in BOOLEAN, sparse \in BOOLEAN :
           cfg0 = IF sparse THEN SparseConfig(ConfigOf(seed, save)) ELSE ConfigOf(seed, save)
    /\ faultPlan \in UpTo((MacroKeys \cup SectorNames \cup CategoryNames) \X Years, MaxFaults)
    /\ initFails \in UpTo(({"investment", "geopolitical", "structural"} \cup SectorNames \cup CategoryNames), MaxInitFail)
    /\ pc = "new"
    /\ struct = EmptyDict
    /\ Blank

(* time passes before an engine is constructed *)
Tick ==
    /\ pc = "new"
    /\ clock < MaxClock
    /\ clock' = clock + 1
    /\ UNCHANGED <<config, <<pc, run, models, export_models, import_models, np_rng, py_rng,
                             year, step, calls, simulated, yr, loc, metadata, yearly_data,
                             saved, output>>, modelVars, inputVars>>

(* TradeSimulationEngine.__init__ with initialize_models *)
Construct ==
    /\ pc = "new"
    /\ pc' = "running"
    /\ np_rng' = ((Get(config, "random_seed", 42)) % RngModulus)
    /\ py_rng' = ((Get(config, "random_seed", 42)) % RngModulus)
    /\ config' = [config EXCEPT !.export_sector_config.sectors = [s \in DOMAIN (@) |-> ("sector_name" :> s) @@ (@)[s]]]
    /\ export_models' = SelectSeq(SectorOrder, LAMBDA s : s \notin initFails)
    /\ import_models' = SelectSeq(CategoryOrder, LAMBDA c : c \notin initFails)
    /\ sect' = [s \in SectorNames \ initFails |->
                   ExportSectorInit(config.export_sector_config.sectors[s])]
    /\ imp' = [c \in CategoryNames \ initFails |->
                  ImportInit(config.import_dependency_config.categories[c])]
    /\ models' = MacroKeys \ initFails
    /\ geo' = GeoInit(config)
    /\ inv' = [gdp |-> 350 * 100,
               fdi_inflow |-> 350,
               domestic_investment_rate |-> 3200,
               domestic_investment |-> (3200 * (350 * 100)) \div One,
               investment_policy_index |-> 5500,
               repatriation_restrictions |-> 4000]
    /\ exch' = ExchangeRateInit
    /\ struct' = StructInit(DefaultExportSectors, TRUE, FALSE)
    /\ trade_policy' = TradePolicyInit(Get(config, "trade_policy_config", EmptyDict))
    /\ compliance' = ComplianceInit(Get(config, "compliance_config", EmptyDict))
    /\ heap' = (TariffRatesRef :> EmptyDict)
    /\ metadata' = [scenario |-> "baseline", start_year |-> StartYear,
                    end_year |-> (StartYear + NumYears - 1), timestamp |-> clock]
    /\ yearly_data' = EmptyDict
    /\ year' = StartYear
    /\ step' = "idle"
    /\ calls' = <<>>
    /\ simulated' = <<>>
    /\ yr' = EmptyDict
    /\ loc' = NoLocals
    /\ saved' = EmptyDict
    /\ UNCHANGED <<inputVars, clock, run, output>>

(* a loop that steps over every other year *)
NextYearSkipping(done) == StartYear + 2 * Len(done)

(* range(start_year, end_year + 1): the year that follows the ones simulated so far *)
NextYear(done) == StartYear + Len(done)

(* run_simulation: the next iteration of the loop over the years enters simulate_year *)
BeginYear ==
    /\ pc = "running"
    /\ step = "idle"
    /\ Len(simulated) < NumYears
    /\ year' = NextYear(simulated)
    /\ simulated' = Append(simulated, year')
    /\ step' = MacroOrder[1]
    /\ calls' = <<>>
    /\ yr' = EmptyDict
    /\ loc' = NoLocals
    /\ UNCHANGED <<config, inputVars, clock, pc, run, models, export_models, import_models,
                   np_rng, py_rng, metadata, yearly_data, saved, output, modelVars>>

(* what a macro-model step leaves alone, besides the model states *)
MacroFrame == <<inputVars, clock, pc, run, models, export_models, import_models,
                year, simulated, metadata, yearly_data, saved, output>>

SimGlobalMarket ==
    /\ pc = "running"
    /\ step = "global_market"
    /\ step' = StepAfter("global_market")
    /\ calls' = Append(calls, "global_market")
    /\ IF Raises("global_market", year)
       THEN /\ loc' = [loc EXCEPT !.global_conditions = EmptyDict]
            /\ yr' = ("global_market" :> ErrorMarker(Message("global_market"))) @@ yr
            /\ UNCHANGED np_rng
       ELSE \E r \in {SimulateGlobalMarkets(np_rng, YearIndex, year, "baseline")} :
                /\ loc' = [loc EXCEPT !.global_conditions = r.result]
                /\ yr' = ("global_market" :> r.result) @@ yr
                /\ np_rng' = r.rng
    /\ UNCHANGED <<config, py_rng, MacroFrame, modelVars>>

SimGeopolitical ==
    /\ pc = "running"
    /\ step = "geopolitical"
    /\ step' = StepAfter("geopolitical")
    /\ calls' = Append(calls, "geopolitical")
    /\ IF Raises("geopolitical", year)
       THEN /\ loc' = [loc EXCEPT !.geopolitical_conditions = EmptyDict]
            /\ yr' = ("geopolitical" :> ErrorMarker(Message("geopolitical"))) @@ yr
            /\ UNCHANGED <<np_rng, config, geo, heap>>
       ELSE \E r \in {SimulateGeopolitical(config.geopolitical_config, geo, heap,
                                           np_rng, YearIndex, year)} :
                /\ loc' = [loc EXCEPT !.geopolitical_conditions = r.result]
                /\ yr' = ("geopolitical" :> r.result) @@ yr
                /\ np_rng' = r.rng
                /\ config' = [config EXCEPT !.geopolitical_config = r.g]
                /\ geo' = r.tw
                /\ heap' = r.heap
    /\ UNCHANGED <<py_rng, MacroFrame, inv, exch, struct, sect, imp, trade_policy, compliance>>

SimInvestment ==
    /\ pc = "running"
    /\ step = "investment"
    /\ step' = StepAfter("investment")
    /\ calls' = Append(calls, "investment")
    /\ IF Raises("investment", year) \/ (inv.gdp = 0)
       THEN /\ loc' = [loc EXCEPT !.investment_results = EmptyDict]
            /\ yr' = ("investment" :> ErrorMarker(Message("investment"))) @@ yr
            /\ UNCHANGED <<py_rng, inv>>
       ELSE \E r \in {InvestmentStep(inv, py_rng, year,
                                     [k \in DOMAIN loc.global_conditions \cup DOMAIN loc.geopolitical_conditions |-> IF k \in DOMAIN loc.geopolitical_conditions THEN loc.geopolitical_conditions[k] ELSE loc.global_conditions[k]])} :
                /\ loc' = [loc EXCEPT !.investment_results = r.result]
                /\ yr' = ("investment" :> r.result) @@ yr
                /\ py_rng' = r.rng
                /\ inv' = r.m
    /\ UNCHANGED <<config, np_rng, MacroFrame, heap, geo, exch, struct, sect, imp, trade_policy, compliance>>

SimTradePolicy ==
    /\ pc = "running"
    /\ step = "trade_policy"
    /\ step' = StepAfter("trade_policy")
    /\ calls' = Append(calls, "trade_policy")
    /\ IF Raises("trade_policy", year)
       THEN /\ loc' = [loc EXCEPT !.trade_policy_results = EmptyDict]
            /\ yr' = ("trade_policy" :> ErrorMarker(Message("trade_policy"))) @@ yr
       ELSE \E r \in {GetOverallPolicyEnvironment(YearIndex, year)} :
                /\ loc' = [loc EXCEPT !.trade_policy_results = r]
                /\ yr' = ("trade_policy" :> r) @@ yr
    /\ UNCHANGED <<config, np_rng, py_rng, MacroFrame, modelVars>>

SimLogistics ==
    /\ pc = "running"
    /\ step = "logistics"
    /\ step' = StepAfter("logistics")
    /\ calls' = Append(calls, "logistics")
    /\ IF Raises("logistics", year)
       THEN /\ loc' = [loc EXCEPT !.logistics_results = EmptyDict]
            /\ yr' = ("logistics" :> ErrorMarker(Message("logistics"))) @@ yr
       ELSE \E r \in {SimulateLogisticsPerformance(YearIndex, year, 100000)} :
                /\ loc' = [loc EXCEPT !.logistics_results = r]
                /\ yr' = ("logistics" :> r) @@ yr
    /\ UNCHANGED <<config, np_rng, py_rng, MacroFrame, modelVars>>

SimExchangeRate ==
    /\ pc = "running"
    /\ step = "exchange_rate"
    /\ step' = StepAfter("exchange_rate")
    /\ calls' = Append(calls, "exchange_rate")
    /\ IF Raises("exchange_rate", year) \/ ExchangeRateRaises(EngineBalanceOfPayments)
       THEN /\ loc' = [loc EXCEPT !.exchange_rate_results = EmptyDict]
            /\ yr' = ("exchange_rate" :> ErrorMarker(Message("exchange_rate"))) @@ yr
            /\ UNCHANGED <<np_rng, exch>>
       ELSE \E r \in {SimulateExchangeRate(exch, np_rng, YearIndex, EngineBalanceOfPayments,
                                           [intervention_stance |-> 5000], loc.global_conditions)} :
                /\ loc' = [loc EXCEPT !.exchange_rate_results = r.result]
                /\ yr' = ("exchange_rate" :> r.result) @@ yr
                /\ np_rng' = r.rng
                /\ exch' = r.m
    /\ UNCHANGED <<config, py_rng, MacroFrame, heap, geo, inv, struct, sect, imp, trade_policy, compliance>>

SimCompliance ==
    /\ pc = "running"
    /\ step = "compliance"
    /\ step' = StepAfter("compliance")
    /\ calls' = Append(calls, "compliance")
    /\ IF Raises("compliance", year)
       THEN /\ loc' = [loc EXCEPT !.compliance_results = EmptyDict]
            /\ yr' = ("compliance" :> ErrorMarker(Message("compliance"))) @@ yr
            /\ UNCHANGED <<np_rng, compliance>>
       ELSE \E r \in {SimulateComplianceEnvironment(compliance, np_rng, YearIndex, year,
                                                     6000, 7000)} :
                /\ loc' = [loc EXCEPT !.compliance_results = r.result]
                /\ yr' = ("compliance" :> r.result) @@ yr
                /\ np_rng' = r.rng
                /\ compliance' = r.m
    /\ UNCHANGED <<config, py_rng, MacroFrame, heap, geo, inv, exch, struct, sect, imp,
                   trade_policy>>

(* The engine's structural model has a sector mapper but no trade data     *)
(* file to read: process_trade_data raises and the step falls back to      *)
(* synthetic data.                                                         *)
SimStructural ==
    /\ pc = "running"
    /\ step = "structural"
    /\ step' = StepAfter("structural")
    /\ calls' = Append(calls, "structural")
    /\ IF Raises("structural", year)
       THEN /\ loc' = [loc EXCEPT !.structural_transformation_results = EmptyDict]
            /\ yr' = (ResultKey("structural") :> ErrorMarker(Message("structural"))) @@ yr
            /\ UNCHANGED <<py_rng, struct>>
       ELSE \E n \in {StructDraws(TRUE)} :
            \E r \in {StructuralStep(struct, year,
                                     DataSource(struct, [status |-> "raises"], [status |-> "empty"]),
                                     [k \in 1..n |-> RngAt(py_rng, k)])} :
                IF r.raised
                THEN /\ loc' = [loc EXCEPT !.structural_transformation_results = EmptyDict]
                     /\ yr' = (ResultKey("structural") :> ErrorMarker(Message("structural"))) @@ yr
                     /\ py_rng' = RngAt(py_rng, Len(StructSectorOrder))
                     /\ struct' = r.m
                ELSE /\ loc' = [loc EXCEPT !.structural_transformation_results = r.result]
                     /\ yr' = (ResultKey("structural") :> r.result) @@ yr
                     /\ py_rng' = RngAt(py_rng, n)
                     /\ struct' = r.m
    /\ UNCHANGED <<config, np_rng, MacroFrame, heap, geo, inv, exch, sect, imp, trade_policy, compliance>>

SimDigitalTrade ==
    /\ pc = "running"
    /\ step = "digital_trade"
    /\ step' = StepAfter("digital_trade")
    /\ calls' = Append(calls, "digital_trade")
    /\ IF Raises("digital_trade", year)
       THEN /\ loc' = [loc EXCEPT !.digital_trade_results = EmptyDict]
            /\ yr' = ("digital_trade" :> ErrorMarker(Message("digital_trade"))) @@ yr
            /\ UNCHANGED py_rng
       ELSE \E r \in {DigitalTradeStep(py_rng, year)} :
                /\ loc' = [loc EXCEPT !.digital_trade_results = r.result]
                /\ yr' = ("digital_trade" :> r.result) @@ yr
                /\ py_rng' = r.rng
    /\ UNCHANGED <<config, np_rng, MacroFrame, modelVars>>

SimServicesTrade ==
    /\ pc = "running"
    /\ step = "services_trade"
    /\ step' = StepAfter("services_trade")
    /\ calls' = Append(calls, "services_trade")
    /\ IF Raises("services_trade", year)
       THEN /\ loc' = [loc EXCEPT !.services_trade_results = EmptyDict]
            /\ yr' = ("services_trade" :> ErrorMarker(Message("services_trade"))) @@ yr
            /\ UNCHANGED py_rng
       ELSE \E r \in {ServicesTradeStep(py_rng, year)} :
                /\ loc' = [loc EXCEPT !.services_trade_results = r.result]
                /\ yr' = ("services_trade" :> r.result) @@ yr
                /\ py_rng' = r.rng
    /\ UNCHANGED <<config, np_rng, MacroFrame, modelVars>>

(* sector_inputs: what the engine reads out of the macro results for the export sectors *)
SectorInputs(l) ==
    [global_demand_growth |-> Get(l.global_conditions, "demand_growth_rate", 300),
     tariff_changes |-> Get(l.trade_policy_results, "effective_tariffs", EmptyDict),
     exchange_rate_impact |-> Get(l.exchange_rate_results, "impact_factor", 0),
     logistics_performance |-> Get(l.logistics_results, "performance_index", 6000),
     trade_policy_impact |-> Get(l.trade_policy_results, "net_impact", 0),
     compliance_impact |-> Get(l.compliance_results, "net_impact", 0),
     digital_adoption |-> Get(l.digital_trade_results, "overall_adoption_rate", 5000),
     competitor_growth |-> Get(l.global_conditions, "competitor_growth", EmptyDict)]

(* one iteration of the loop over self.export_models *)
SimExportSector ==
    /\ pc = "running"
    /\ step = "export"
    /\ loc.i <= Len(export_models)
    /\ \E name \in {export_models[loc.i]}, inputs \in {SectorInputs(loc)} :
           /\ calls' = Append(calls, name)
           /\ IF <<name, year>> \in faultPlan
              THEN /\ loc' = [loc EXCEPT !.sector_inputs = inputs, !.i = @ + 1,
                                         !.all_sector_results = (name :> ErrorMarker(Message(name))) @@ @]
                   /\ UNCHANGED <<np_rng, sect>>
              ELSE \E r \in {ExportSimulateYear(sect[name], name, YearIndex, inputs, np_rng)} :
                   /\ loc' = [loc EXCEPT !.sector_inputs = inputs, !.i = @ + 1,
                                         !.all_sector_results = (name :> r.result) @@ @,
                                         !.total_exports = @ + Get(r.result, "export_volume", 0)]
                   /\ np_rng' = r.rng
                   /\ sect' = [sect EXCEPT ![name] = r.m]
    /\ UNCHANGED <<config, py_rng, step, yr, MacroFrame, heap, geo, inv, exch, struct, imp, trade_policy, compliance>>

(* final_export_summary, after the loop *)
AggregateExports ==
    /\ pc = "running"
    /\ step = "export"
    /\ loc.i > Len(export_models)
    /\ step' = "import"
    /\ yr' = ("export" :> [total_exports |-> loc.total_exports,
                           sector_details |-> loc.all_sector_results]) @@ yr
    /\ loc' = [loc EXCEPT !.i = 1]
    /\ UNCHANGED <<config, np_rng, py_rng, calls, MacroFrame, modelVars>>

(* category_inputs: what the engine reads out of the macro results for the import categories *)
CategoryInputs(l) ==
    [domestic_production_growth |-> Get(l.investment_results, "domestic_growth_rate", 500),
     consumption_demand_growth |-> Get(l.global_conditions, "consumption_growth", 400),
     exchange_rate_impact |-> Get(l.exchange_rate_results, "import_impact", 0),
     tariff_changes |-> Get(l.trade_policy_results, "import_tariff_change", 0),
     global_price_changes |-> Get(l.global_conditions, "global_price_changes", EmptyDict),
     logistics_cost |-> Get(l.logistics_results, "logistics_cost_factor", 1000),
     domestic_capacity_investment |-> Get(l.investment_results, "domestic_investment_level", 5000)]

(* one iteration of the loop over self.import_models *)
SimImportCategory ==
    /\ pc = "running"
    /\ step = "import"
    /\ loc.i <= Len(import_models)
    /\ \E name \in {import_models[loc.i]}, inputs \in {CategoryInputs(loc)} :
           /\ calls' = Append(calls, name)
           /\ IF <<name, year>> \in faultPlan
              THEN /\ loc' = [loc EXCEPT !.category_inputs = inputs, !.i = @ + 1,
                                         !.all_import_results = (name :> ErrorMarker(Message(name))) @@ @]
                   /\ UNCHANGED <<np_rng, imp>>
              ELSE \E r \in {SimulateImportNeeds(imp[name], name, YearIndex, inputs, np_rng)} :
                   /\ loc' = [loc EXCEPT !.category_inputs = inputs, !.i = @ + 1,
                                         !.all_import_results =
                                             (name :> IF r.raised THEN ErrorMarker(Message(name))
                                                      ELSE r.result) @@ @,
                                         !.total_imports = @ + Get(r.result, "import_volume", 0)]
                   /\ np_rng' = r.rng
                   /\ imp' = [imp EXCEPT ![name] = r.m]
    /\ UNCHANGED <<config, py_rng, step, yr, MacroFrame, heap, geo, inv, exch, struct, sect, trade_policy, compliance>>

(* final_import_summary, after the loop (or with no import model at all) *)
AggregateImports ==
    /\ pc = "running"
    /\ step = "import"
    /\ loc.i > Len(import_models)
    /\ step' = "aggregate"
    /\ yr' = ("import" :> [total_imports |-> loc.total_imports,
                           category_details |-> loc.all_import_results]) @@ yr
    /\ UNCHANGED <<config, np_rng, py_rng, calls, loc, MacroFrame, modelVars>>

----------------------------------------------------------------------------
(* JSON.  A document is the tree of its objects; json.dump writes the key  *)
(* of a dict entry as a string (an int key as its decimal digits) and      *)
(* writes the dict a reference leads to in the place of the reference.     *)

(* a writer that puts the year out the way it puts out a float *)
JsonKeyAsFloat(y) == ToString(y) \o ".0"

JsonKey(y) == ToString(y)

(* the value of a yearly record with the dicts it shares written out *)
DerefYear(rec, hp) ==
    [k \in DOMAIN rec |->
        IF k = "trade_policy" /\ ~IsError(rec[k])
        THEN [rec[k] EXCEPT !.tariff_rates = hp[@]]
        ELSE IF k = "geopolitical" /\ ~IsError(rec[k])
        THEN [rec[k] EXCEPT !.trade_war_impacts.active_trade_wars =
                                [id \in DOMAIN @ |-> hp[@[id]]]]
        ELSE rec[k]]

(* json.dump(self.results) *)
JsonDump(meta, yd, hp) ==
    [metadata |-> meta,
     yearly_data |-> [k \in {JsonKey(y) : y \in DOMAIN yd} |->
                         DerefYear(yd[CHOOSE y \in DOMAIN yd : JsonKey(y) = k], hp)]]

----------------------------------------------------------------------------
(* a default of 0 for the gdp of a failed investment model *)
GdpDefaultZero(investment_results) == Get(investment_results, "gdp", 0)

(* gdp = investment_results.get('gdp', 1), in 0.01 billion USD *)
Gdp(investment_results) == Get(investment_results, "gdp", 100)

(* year_results['aggregate_metrics']; the divisions raise when gdp is 0 *)
AggregateMetrics(total_exports, total_imports, gdp) ==
    [trade_balance |-> total_exports - total_imports,
     trade_openness |-> (((total_exports + total_imports) * One) \div gdp) * 100,
     export_to_gdp |-> ((total_exports * One) \div gdp) * 100,
     import_to_gdp |-> ((total_imports * One) \div gdp) * 100]

(* The end of simulate_year and of the loop body of run_simulation: the    *)
(* aggregate metrics, the record stored under its year, the intermediate   *)
(* save.  A division by zero is outside every try block.                   *)
StoreYear ==
    /\ pc = "running"
    /\ step = "aggregate"
    /\ LET gdp == Gdp(loc.investment_results)
           year_results == ("aggregate_metrics" :>
                               AggregateMetrics(loc.total_exports, loc.total_imports, gdp)) @@ yr
       IN  IF gdp = 0
           THEN /\ pc' = "crashed"
                /\ UNCHANGED <<step, yr, yearly_data, saved>>
           ELSE /\ pc' = pc
                /\ step' = "idle"
                /\ yr' = year_results
                /\ yearly_data' = (year :> year_results) @@ yearly_data
                /\ saved' = IF year % 5 = 0 /\ Get(config, "save_intermediate_results", FALSE)
                            THEN (year :> JsonDump(metadata, yearly_data', heap)) @@ saved
                            ELSE saved
    /\ UNCHANGED <<config, inputVars, clock, run, models, export_models, import_models,
                   np_rng, py_rng, year, calls, simulated, loc, metadata, output, modelVars>>

(* run_simulation returns self.results *)
Finish ==
    /\ pc = "running"
    /\ step = "idle"
    /\ Len(simulated) = NumYears
    /\ pc' = "done"
    /\ UNCHANGED <<config, inputVars, clock, run, models, export_models, import_models,
                   np_rng, py_rng, year, step, calls, simulated, yr, loc, metadata,
                   yearly_data, saved, output, modelVars>>

(* run_single_scenario writes the results it got back *)
SaveOutput ==
    /\ pc = "done"
    /\ pc' = "saved"
    /\ output' = (run :> JsonDump(metadata, yearly_data, heap)) @@ output
    /\ UNCHANGED <<config, inputVars, clock, run, models, export_models, import_models,
                   np_rng, py_rng, year, step, calls, simulated, yr, loc, metadata,
                   yearly_data, saved, modelVars>>

(* run_single_scenario is called a second time with the same configuration mapping *)
Rerun ==
    /\ pc = "saved"
    /\ run = 1
    /\ run' = 2
    /\ pc' = "new"
    /\ UNCHANGED <<config, inputVars, clock, models, export_models, import_models,
                   np_rng, py_rng, year, step, calls, simulated, yr, loc, metadata,
                   yearly_data, saved, output, modelVars>>

Next ==
    \/ Construct
    \/ BeginYear
    \/ SimGlobalMarket
    \/ SimGeopolitical
    \/ SimInvestment
    \/ SimTradePolicy
    \/ SimLogistics
    \/ SimExchangeRate
    \/ SimCompliance
    \/ SimStructural
    \/ SimDigitalTrade
    \/ SimServicesTrade
    \/ SimExportSector
    \/ AggregateExports
    \/ SimImportCategory
    \/ AggregateImports
    \/ StoreYear
    \/ Finish
    \/ SaveOutput

Spec == Init /\ [][Next]_vars

(* Two runs of run_single_scenario, one after the other, on one            *)
(* configuration mapping under which no call fails.                        *)
InitTwice == Init /\ faultPlan = {} /\ initFails = {}

NextTwice == Next \/ Tick \/ Rerun

SpecTwice == InitTwice /\ [][NextTwice]_vars

----------------------------------------------------------------------------
(* A StructuralTransformationModel on its own, as standalone_test.py       *)
(* drives one: any configured sector data, any data found for a year, the  *)
(* smallest and the largest draw.                                          *)

MaxSteps == 3

InitStruct ==
    /\ cfg0 \in {ConfigOf(seed, FALSE) : seed \in Seeds}
    /\ faultPlan = {}
    /\ initFails = {}
    /\ pc = "standalone"
    /\ struct \in {StructInit(es, d[1], d[2]) :
                      es \in [StructSectors -> {[value |-> 3800, complexity |-> 3000, value_chain_position |-> 2500],
                                                [value |-> 130, complexity |-> 8000, value_chain_position |-> 6000],
                                                [value |-> 50, complexity |-> 6000, value_chain_position |-> 9700]}],
                      d \in {<<TRUE, FALSE>>, <<TRUE, TRUE>>, <<FALSE, TRUE>>, <<FALSE, FALSE>>}}
    /\ Blank

(* one call of simulate_step; loc keeps what the caller saw: the positions *)
(* before the call, the data source of the year, the result                *)
StandaloneStep ==
    /\ pc = "standalone"
    /\ Len(simulated) < MaxSteps
    /\ \E mapped \in {[status |-> "raises"], [status |-> "empty"],
                      [status |-> "data", export_data |-> [rmg |-> 4000]]}, handled \in {[status |-> "empty"],
                                                                                         [status |-> "data", values |-> [rmg |-> 4000], positions |-> EmptyDict],
                                                                                         [status |-> "data", values |-> EmptyDict, positions |-> [rmg |-> 2000]]}, x \in {0, RngModulus - 1} :
           LET source == DataSource(struct, mapped, handled)
               r == StructuralStep(struct, year, source, [k \in 1..StructDraws(TRUE) |-> x])
           IN  /\ struct' = r.m
               /\ loc' = [before |-> [s \in StructSectors |->
                                         struct.export_sectors[s].value_chain_position],
                          source |-> source,
                          mapped |-> mapped, handled |-> handled, x |-> x,
                          result |-> r.result]
    /\ year' = year + 1
    /\ simulated' = Append(simulated, year)
    /\ UNCHANGED <<config, inputVars, clock, pc, run, models, export_models, import_models,
                   np_rng, py_rng, step, calls, yr, metadata, yearly_data, saved, output,
                   heap, geo, inv, exch, sect, imp, trade_policy, compliance>>

SpecStruct == InitStruct /\ [][StandaloneStep]_vars

----------------------------------------------------------------------------
(* Properties *)

(* the call of model m in year y fails *)
Failed(m, y) == <<m, y>> \in faultPlan \/ (m \in MacroKeys /\ m \notin models)

(* the model calls of one complete year, in the engine's order *)
ExpectedCalls == MacroOrder \o export_models \o import_models

(* what a stored yearly record holds for model m *)
StoredResult(rec, m) ==
    IF m \in MacroKeys THEN rec[ResultKey(m)]
    ELSE IF m \in SectorNames THEN rec.export.sector_details[m]
    ELSE rec["import"].category_details[m]

AllYears == [k \in 1..NumYears |-> StartYear + k - 1]

Returned == pc \in {"done", "saved"}

(* C1: a model call that raises leaves an {'error': ...} marker for that   *)
(* model in the year's results, every remaining model of the year is still *)
(* invoked, every following year is still simulated, and the exception     *)
(* never leaves run_simulation.                                            *)
C1_ErrorsContained ==
    /\ pc # "crashed"
    /\ \A k \in DOMAIN calls : Failed(calls[k], year) => IsError((IF (calls[k]) \in MacroKeys THEN yr[ResultKey((calls[k]))]
                                                                   ELSE IF (calls[k]) \in SectorNames THEN loc.all_sector_results[(calls[k])]
                                                                   ELSE loc.all_import_results[(calls[k])]))
    /\ (step = "aggregate" \/ (step = "idle" /\ simulated # <<>>)) => calls = ExpectedCalls
    /\ \A y \in DOMAIN yearly_data :
           \A k \in DOMAIN ExpectedCalls :
               Failed(ExpectedCalls[k], y) => IsError(StoredResult(yearly_data[y], ExpectedCalls[k]))
    /\ Returned => simulated = AllYears /\ DOMAIN yearly_data = Years

(* a run has returned in which a call of the first year raised: its marker *)
(* is stored and the later years were simulated in full                    *)
C1_Witness ==
    /\ Returned
    /\ \E m \in MacroKeys \cup SectorNames \cup CategoryNames :
           /\ <<m, StartYear>> \in faultPlan
           /\ m \notin initFails
           /\ StoredResult(yearly_data[StartYear], m) = [error |-> "raised"]
    /\ \A y \in Years \ {StartYear} : "aggregate_metrics" \in DOMAIN yearly_data[y]

(* C2: no fatal-error path: whatever models failed to initialise or        *)
(* raised, with or without intermediate saving, run_simulation does not    *)
(* crash and what it returns has a record with aggregate_metrics for every *)
(* year of the range.                                                      *)
C2_NoFatalPath ==
    /\ pc # "crashed"
    /\ Returned => \A y \in Years :
                       /\ y \in DOMAIN yearly_data
                       /\ "aggregate_metrics" \in DOMAIN yearly_data[y]

(* a run has returned although the investment model, whose gdp the         *)
(* aggregate metrics divide by, failed to initialise, another call raised  *)
(* and an intermediate file was written                                    *)
C2_Witness ==
    /\ Returned
    /\ "investment" \in initFails
    /\ faultPlan # {}
    /\ DOMAIN saved # {}
    /\ \A y \in Years : "aggregate_metrics" \in DOMAIN yearly_data[y]

IsPrefix(s, t) == Len(s) <= Len(t) /\ s = SubSeq(t, 1, Len(s))

(* C3: within a year the models are invoked in one fixed order: the ten    *)
(* macro models, then every export sector, then every import category,     *)
(* then the aggregate metrics; no sector or category is invoked before     *)
(* every macro model of the year has been.                                 *)
C3_FixedOrder ==
    /\ pc = "running" => IsPrefix(calls, ExpectedCalls)
    /\ \A k \in DOMAIN calls :
           calls[k] \in SectorNames \cup CategoryNames =>
               \A m \in MacroKeys : \E j \in 1..(k - 1) : calls[j] = m
    /\ "aggregate_metrics" \in DOMAIN yr => calls = ExpectedCalls

(* the import loop is reached in a year in which a macro model raised *)
C3_Witness ==
    /\ pc = "running"
    /\ step = "import"
    /\ Len(calls) > Len(MacroOrder) + 1
    /\ \E m \in MacroKeys : Failed(m, year)

(* C4: the years start_year..end_year are simulated in ascending order,    *)
(* each once; the recorded years are at every point a prefix of that       *)
(* sequence, the mapping only grows, and at the return it holds exactly    *)
(* the years of the range.                                                 *)
C4_YearsInOrder ==
    /\ [](/\ IsPrefix(simulated, AllYears)
          /\ \E n \in {Len(simulated) - 1, Len(simulated)} :
                 DOMAIN yearly_data = {AllYears[k] : k \in 1..n}
          /\ Returned => simulated = AllYears /\ DOMAIN yearly_data = Years)
    /\ [][pc = "running" => DOMAIN yearly_data \subseteq DOMAIN yearly_data']_vars

(* the run has returned with every year recorded *)
C4_Witness ==
    /\ Returned
    /\ Len(simulated) = NumYears
    /\ Cardinality(DOMAIN yearly_data) = NumYears

(* C5: a yearly record is immutable once stored: no later step changes    *)
(* any value reachable inside it.                                          *)
C5_RecordsImmutable ==
    [][\A y \in DOMAIN yearly_data :
           y \in DOMAIN yearly_data' =>
               DerefYear(yearly_data'[y], heap') = DerefYear(yearly_data[y], heap)]_vars

(* C6: the inputs handed to every export sector are the values the macro  *)
(* models produced that year whenever those models succeeded; a default    *)
(* stands in only for a model that failed.                                 *)
C6_InputsFromModels ==
    (pc = "running" /\ DOMAIN loc.sector_inputs # {}) =>
        /\ ~IsError(yr.logistics) =>
               loc.sector_inputs.logistics_performance = yr.logistics.overall_performance
        /\ ~IsError(yr.compliance) =>
               loc.sector_inputs.compliance_impact = yr.compliance.net_compliance_impact
        /\ ~IsError(yr.exchange_rate) =>
               loc.sector_inputs.exchange_rate_impact = yr.exchange_rate.export_impact
        /\ ~IsError(yr.digital_trade) =>
               loc.sector_inputs.digital_adoption = yr.digital_trade.ecommerce_adoption_rate

(* C7: constructing an engine and running it never modifies the            *)
(* configuration mapping: every key and nested value stays what it was.    *)
C7_ConfigUnchanged == config = cfg0

(* C8: with a fixed seed, two runs on the same configuration write         *)
(* identical JSON output.                                                  *)
C8_Reproducible ==
    (1 \in DOMAIN output /\ 2 \in DOMAIN output) => output[1] = output[2]

Reloaded == (JsonDump(metadata, yearly_data, heap))

C10_NonDecreasing ==
    [][pc = "standalone" =>
           \A s \in StructSectors :
               struct'.export_sectors[s].value_chain_position
                   >= struct.export_sectors[s].value_chain_position]_vars

(* C10: a call of simulate_step does not lower the value_chain_position of *)
(* a sector that was at most 0.95 before the call and whose position the   *)
(* call did not take from the data handler's data; the position stays at   *)
(* most 0.95.                                                              *)
C10_NonDecreasingBelowCap ==
    [][pc = "standalone" =>
           \A s \in StructSectors :
               (/\ struct.export_sectors[s].value_chain_position <= 9500
                /\ ~(loc'.source.kind = "real_data" /\ s \in DOMAIN loc'.source.positions))
               => /\ struct'.export_sectors[s].value_chain_position
                         >= struct.export_sectors[s].value_chain_position
                  /\ struct'.export_sectors[s].value_chain_position <= 9500]_vars

(* a second step has raised the position of a sector below the cap *)
C10_Witness ==
    /\ pc = "standalone"
    /\ Len(simulated) >= 2
    /\ \E s \in StructSectors :
           /\ loc.before[s] <= 9500
           /\ struct.export_sectors[s].value_chain_position > loc.before[s]

----------------------------------------------------------------------------
(* calculate_export_diversification on its own: any sector values, and the *)
(* same values multiplied by a positive constant.                          *)

MaxScale == 4

(* {s: v * k for s, v in sectors} *)
Rescaled(m, k) ==
    [m EXCEPT !.export_sectors = [s \in DOMAIN @ |-> [@[s] EXCEPT !.value = @ * k]]]

InitHhi ==
    /\ cfg0 \in {ConfigOf(seed, FALSE) : seed \in Seeds}
    /\ faultPlan = {}
    /\ initFails = {}
    /\ pc = "hhi"
    /\ struct \in {StructInit([s \in StructSectors |->
                                  [DefaultExportSectors[s] EXCEPT !.value = v[s]]], FALSE, FALSE) :
                      v \in [StructSectors -> {0, 1, 130, 1300, 3800, 4700}]}
    /\ Blank

(* the index of the sectors, then the index of the sectors rescaled by k;  *)
(* the model goes on with the rescaled sectors                             *)
Diversify ==
    /\ pc = "hhi"
    /\ Len(simulated) < 2
    /\ \E k \in 1..MaxScale :
           /\ loc' = IF DiversificationRaises(struct)
                     THEN [k |-> k, raised |-> TRUE]
                     ELSE [k |-> k, raised |-> FALSE,
                           hhi |-> CalculateExportDiversification(struct),
                           rescaled_hhi |-> CalculateExportDiversification(Rescaled(struct, k))]
           /\ struct' = Rescaled(struct, k)
    /\ simulated' = Append(simulated, year)
    /\ UNCHANGED <<config, inputVars, clock, pc, run, models, export_models, import_models,
                   np_rng, py_rng, year, step, calls, yr, metadata, yearly_data, saved, output,
                   heap, geo, inv, exch, sect, imp, trade_policy, compliance>>

SpecHhi == InitHhi /\ [][Diversify]_vars

(* C11: the export-diversification HHI is invariant under uniform          *)
(* rescaling: multiplying every sector's export value by the same positive *)
(* constant k leaves the HHI unchanged.                                    *)
C11_ScaleInvariant ==
    (pc = "hhi" /\ simulated # <<>> /\ ~loc.raised) => loc.rescaled_hhi = loc.hhi

(* the index of two sectors of different positive values was computed      *)
(* before and after a rescaling by more than 1                             *)
C11_Witness ==
    /\ pc = "hhi"
    /\ simulated # <<>>
    /\ ~loc.raised
    /\ loc.k > 1
    /\ loc.hhi > One \div 2
    /\ loc.hhi < One

----------------------------------------------------------------------------
(* An ExchangeRateModel on its own: any configured threshold, strength and *)
(* trend, any state of the generator, any balance of payments and policy   *)
(* stance handed to simulate_exchange_rate.                                *)

MaxRateSteps == 2

InitRate ==
    /\ cfg0 \in {ConfigOf(seed, FALSE) : seed \in Seeds}
    /\ faultPlan = {}
    /\ initFails = {}
    /\ pc = "exchange_rate"
    /\ struct = EmptyDict
    /\ trade_policy = EmptyDict
    /\ compliance = EmptyDict
    /\ BlankEngine
    /\ \E t \in {200, 800}, g \in {6000, 9000}, d \in {300, 710} :
           exch = [ExchangeRateInit EXCEPT !.intervention_threshold = t,
                                           !.intervention_strength = g,
                                           !.annual_depreciation = d]

(* one call of simulate_exchange_rate; loc keeps what the caller handed in *)
(* and got back, and the reserves before the call                          *)
RateStep ==
    /\ pc = "exchange_rate"
    /\ Len(simulated) < MaxRateSteps
    /\ \E bop \in {EngineBalanceOfPayments,
                   [exports |-> 40000, imports |-> 60000, remittances |-> 5000, fdi |-> 1000,
                    aid_loans |-> 0, profit_repatriation |-> 1500, other_outflows |-> 500],
                   [exports |-> 50000, imports |-> 0, remittances |-> 20000]}, stance \in {0, 3000, 5000, One}, x \in (0..4) :
           LET r == SimulateExchangeRate(exch, x, Len(simulated) + 1, bop,
                                         [intervention_stance |-> stance], EmptyDict)
           IN  IF ExchangeRateRaises(bop)
               THEN /\ exch' = [exch EXCEPT !.foreign_reserves =
                                    @ + Get(bop, "exports", 0) + Get(bop, "remittances", 0)]
                    /\ loc' = [raised |-> TRUE]
                    /\ np_rng' = x
               ELSE /\ exch' = r.m
                    /\ loc' = [raised |-> FALSE, stance |-> stance,
                               previous_reserves |-> exch.foreign_reserves,
                               result |-> r.result]
                    /\ np_rng' = r.rng
    /\ simulated' = Append(simulated, year)
    /\ UNCHANGED <<config, inputVars, clock, pc, run, models, export_models, import_models,
                   py_rng, year, step, calls, yr, metadata, yearly_data, saved, output,
                   heap, geo, inv, struct, sect, imp, trade_policy, compliance>>

SpecRate == InitRate /\ [][RateStep]_vars

(* a call of simulate_exchange_rate has returned *)
RateReturned == pc = "exchange_rate" /\ simulated # <<>> /\ ~loc.raised

(* C12: whenever abs(potential_depreciation) <= intervention_threshold,    *)
(* actual_depreciation equals potential_depreciation, the intervention     *)
(* cost is 0, and the foreign reserves change in that year only by the     *)
(* overall balance of payments.                                            *)
C12_NoInterventionBelowThreshold ==
    (RateReturned /\ Abs(loc.result.potential_depreciation) <= exch.intervention_threshold) =>
        /\ loc.result.depreciation_rate = loc.result.potential_depreciation
        /\ loc.result.intervention_cost = 0
        /\ exch.foreign_reserves = loc.previous_reserves + loc.result.overall_balance

(* a call in which the pressure was exactly at the threshold and the bank  *)
(* was willing to intervene                                                *)
C12_Witness ==
    /\ RateReturned
    /\ Abs(loc.result.potential_depreciation) = exch.intervention_threshold
    /\ loc.stance > 3000

(* the call reduced the depreciation by a positive fraction of at most     *)
(* intervention_strength and took the cost out of the reserves             *)
Intervened ==
    LET potential == loc.result.potential_depreciation
        actual == loc.result.depreciation_rate
    IN  /\ Abs(actual) < Abs(potential)
        /\ Abs(potential - actual) * One <= exch.intervention_strength * Abs(potential) + One
        /\ loc.result.intervention_cost >= 0
        /\ exch.foreign_reserves = loc.previous_reserves + loc.result.overall_balance
                                   - loc.result.intervention_cost

(* C13 as stated: whenever abs(potential_depreciation) exceeds the         *)
(* intervention threshold the central bank intervenes.                     *)
C13_IntervenesAboveThreshold ==
    (RateReturned /\ Abs(loc.result.potential_depreciation) > exch.intervention_threshold)
        => Intervened

(* C13: whenever abs(potential_depreciation) exceeds the intervention      *)
(* threshold and the intervention stance handed in is above 0.3, the       *)
(* central bank intervenes: the actual depreciation is the potential one   *)
(* reduced by a fraction of at most intervention_strength and the reserves *)
(* are reduced by the intervention cost; with a stance of 0.3 or less      *)
(* there is no intervention and no cost.                                   *)
C13_IntervenesWhenWilling ==
    (RateReturned /\ Abs(loc.result.potential_depreciation) > exch.intervention_threshold) =>
        IF loc.stance > 3000
        THEN Intervened
        ELSE /\ loc.result.depreciation_rate = loc.result.potential_depreciation
             /\ loc.result.intervention_cost = 0

(* a call in which the bank intervened at a cost *)
C13_Witness ==
    /\ RateReturned
    /\ Abs(loc.result.potential_depreciation) > exch.intervention_threshold
    /\ loc.stance > 3000
    /\ loc.result.intervention_cost > 0
    /\ exch.foreign_reserves < loc.previous_reserves + loc.result.overall_balance

----------------------------------------------------------------------------
(* An ExportSectorModel on its own: any sector, any configuration, any     *)
(* keyword arguments handed to simulate_year, year index after year index. *)

MaxSectorSteps == 2

InitSector ==
    /\ cfg0 \in {ConfigOf(seed, FALSE) : seed \in Seeds}
    /\ faultPlan = {}
    /\ initFails = {}
    /\ pc = "export_sector"
    /\ struct = EmptyDict
    /\ config = cfg0
    /\ clock = 0
    /\ run = 1
    /\ models = {}
    /\ \E name \in SectorNames, c \in {SectorConfigs.rmg, SectorConfigs.pharma,
                                       [current_volume |-> 2000, growth_trajectory |-> 500, global_market_share |-> 200,
                                        tariff_exposure |-> 3000, competitiveness_factors |-> [quality |-> 500]],
                                       [current_volume |-> 2000, growth_trajectory |-> -300, global_market_share |-> 200,
                                        tariff_exposure |-> 3000, competitiveness_factors |-> [quality |-> 6000, cost |-> 8000]]} :
           /\ export_models = <<name>>
           /\ sect = (name :> ExportSectorInit(c))
    /\ import_models = <<>>
    /\ np_rng = 0
    /\ py_rng = 0
    /\ year = StartYear
    /\ step = "idle"
    /\ calls = <<>>
    /\ simulated = <<>>
    /\ yr = EmptyDict
    /\ loc = NoLocals
    /\ metadata = EmptyDict
    /\ yearly_data = EmptyDict
    /\ saved = EmptyDict
    /\ output = EmptyDict
    /\ heap = (TariffRatesRef :> EmptyDict)
    /\ geo = EmptyDict
    /\ inv = EmptyDict
    /\ exch = EmptyDict
    /\ imp = EmptyDict
    /\ trade_policy = EmptyDict
    /\ compliance = EmptyDict

(* one call of simulate_year with the next year index; loc keeps the       *)
(* arguments, the volume and competitiveness of the year before, the       *)
(* result                                                                  *)
SectorStep ==
    /\ pc = "export_sector"
    /\ Len(simulated) < MaxSectorSteps
    /\ \E d \in {300, 500}, t \in {EmptyDict, [us |-> 500]}, g \in {EmptyDict, [vietnam |-> 1000]},
          c \in {[exchange_rate_impact |-> 0, logistics_performance |-> 6000, trade_policy_impact |-> 0,
                  compliance_impact |-> 0, digital_adoption |-> 0],
                 [exchange_rate_impact |-> 0, logistics_performance |-> 6000, trade_policy_impact |-> 0,
                  compliance_impact |-> 0, digital_adoption |-> 5000],
                 [exchange_rate_impact |-> 50 * One, logistics_performance |-> One,
                  trade_policy_impact |-> One, compliance_impact |-> -One,
                  digital_adoption |-> One]}, x \in {0, 3, 6} :
           LET name == export_models[1]
               m == sect[name]
               yi == Len(simulated)
               in == [global_demand_growth |-> d, tariff_changes |-> t,
                      competitor_growth |-> g] @@ c
               r == ExportSimulateYear(m, name, yi, in, x)
           IN  /\ sect' = [sect EXCEPT ![name] = r.m]
               /\ np_rng' = r.rng
               /\ loc' = [in |-> in,
                          prev_volume |-> Get(m.historical_volumes, yi - 1, m.current_volume),
                          prev_competitiveness |->
                              Get(m.historical_competitiveness, yi - 1,
                                  CalculateOverallCompetitiveness(m.competitiveness_factors)),
                          base_growth_rate |-> m.base_growth_rate,
                          result |-> r.result]
    /\ year' = year + 1
    /\ simulated' = Append(simulated, year)
    /\ UNCHANGED <<config, inputVars, clock, pc, run, models, export_models, import_models,
                   py_rng, step, calls, yr, metadata, yearly_data, saved, output,
                   heap, geo, inv, exch, struct, imp, trade_policy, compliance>>

SpecSector == InitSector /\ [][SectorStep]_vars

(* the last call had a demand growth of 0.03, no tariff change, no         *)
(* competitor growth and left competitiveness where it was                 *)
NeutralCall ==
    /\ pc = "export_sector"
    /\ simulated # <<>>
    /\ loc.in.global_demand_growth = 300
    /\ loc.in.tariff_changes = EmptyDict
    /\ loc.in.competitor_growth = EmptyDict
    /\ loc.result.competitiveness = loc.prev_competitiveness

(* C14: simulate_year called with global_demand_growth = 0.03, no tariff   *)
(* changes, no competitor growth and inputs that leave competitiveness     *)
(* unchanged yields a growth rate equal to base_growth_rate plus only the  *)
(* random noise term, and an export_volume equal to the previous volume    *)
(* times (1 + that growth rate).                                           *)
C14_BaseGrowthPlusNoise ==
    NeutralCall =>
        /\ loc.result.growth_rate = loc.base_growth_rate + loc.result.random_variation
        /\ loc.result.export_volume
               = (loc.prev_volume * (One + loc.result.growth_rate)) \div One

(* a neutral call of the second year with a noise term that is not zero *)
C14_Witness ==
    /\ NeutralCall
    /\ Len(simulated) = 2
    /\ loc.result.random_variation # 0
    /\ loc.result.export_volume # loc.prev_volume

(* every entry of history h is still there, with its value, in history g *)
Kept(h, g) == \A k \in DOMAIN h : k \in DOMAIN g /\ g[k] = h[k]

(* C15: each export sector's and import category's per-year history is     *)
(* append-only and keyed by year index: over an engine run, simulating a   *)
(* year adds the entry for that year's index and never overwrites or       *)
(* removes an entry that was already present.                              *)
C15_HistoryAppendOnly ==
    [][(pc = "running" /\ pc' = "running") =>
           /\ \A s \in DOMAIN sect :
                  /\ Kept(sect[s].historical_volumes, sect'[s].historical_volumes)
                  /\ Kept(sect[s].historical_market_shares, sect'[s].historical_market_shares)
                  /\ Kept(sect[s].historical_competitiveness, sect'[s].historical_competitiveness)
           /\ \A c \in DOMAIN imp :
                  /\ Kept(imp[c].historical_volumes, imp'[c].historical_volumes)
                  /\ Kept(imp[c].historical_domestic_ratios, imp'[c].historical_domestic_ratios)]_vars

(* the sector values after the step, and what each update routine would    *)
(* have made of the values before the step                                 *)
ValuesOf(m) == [s \in StructSectors |-> m.export_sectors[s].value]
FromSynthetic ==
    ValuesOf(SimulateWithSyntheticData(struct, [k \in 1..Len(StructSectorOrder) |-> loc'.x]))

(* C16 as stated: the sector values are overwritten with real values if    *)
(* and only if the sector mapper is available and returns non-empty data   *)
(* for the year, and in every other case they all evolve by synthetic      *)
(* compound growth.                                                        *)
C16_MapperOrSynthetic ==
    [][pc = "standalone" =>
           IF struct.sector_mapper /\ loc'.mapped.status = "data"
           THEN \A s \in StructSectors :
                    /\ s \in DOMAIN loc'.mapped.export_data
                    /\ struct'.export_sectors[s].value = loc'.mapped.export_data[s]
           ELSE ValuesOf(struct') = FromSynthetic]_vars

(* C16: in every simulate_step exactly one update routine changes the      *)
(* sector values: update_from_sector_data when the sector mapper is        *)
(* available and returns non-empty data for the year; otherwise, when      *)
(* there is no sector mapper and the data handler has non-empty data for   *)
(* the year, update_from_real_data; in every other case synthetic compound *)
(* growth of every sector.  The two data routines overwrite the sectors    *)
(* the data names and leave the others as they were.                       *)
C16_OneSource ==
    [][pc = "standalone" =>
           IF struct.sector_mapper /\ loc'.mapped.status = "data"
           THEN ValuesOf(struct') = (ValuesOf(UpdateFromSectorData(struct, loc'.mapped.export_data)))
           ELSE IF ~struct.sector_mapper /\ struct.data_handler /\ loc'.handled.status = "data"
                THEN ValuesOf(struct') = (ValuesOf(UpdateFromRealData(struct, loc'.handled.values, EmptyDict)))
                ELSE ValuesOf(struct') = FromSynthetic]_vars

(* a model with a sector mapper and a data handler has made a step from    *)
(* the mapper's data, which names one of its two sectors, while the data   *)
(* handler had data too                                                    *)
C16_Witness ==
    /\ pc = "standalone"
    /\ simulated # <<>>
    /\ struct.sector_mapper
    /\ struct.data_handler
    /\ loc.mapped.status = "data"
    /\ loc.handled.status = "data"
    /\ "values" \in DOMAIN loc.handled
    /\ DOMAIN loc.handled.values # {}
    /\ loc.source.kind = "sector_data"
    /\ struct.export_sectors["rmg"].value = loc.mapped.export_data["rmg"]

(* TRADE_POLICY['ldc_graduation']['year'] of the shipped configuration,    *)
(* which is also the default of TradePolicyModel                           *)
LdcGraduationYear == 2026

(* C17: in a run whose years include the LDC graduation year, the trade    *)
(* policy record of every year before it reports ldc_benefits_active true  *)
(* and the record of the graduation year and of every later year reports   *)
(* it false.                                                               *)
C17_GraduationTakesEffect ==
    LdcGraduationYear \in Years =>
        \A y \in DOMAIN yearly_data :
            ("trade_policy" \in DOMAIN yearly_data[y] /\ ~IsError(yearly_data[y]["trade_policy"])) =>
                (yearly_data[y]["trade_policy"].ldc_benefits_active <=> y < LdcGraduationYear)

----------------------------------------------------------------------------
(* TradePolicyModel on its own: a model built on a trade policy            *)
(* configuration receives implement_policy_change calls of any policy      *)
(* type, year and enforcement quality.                                     *)

MaxPolicyCalls == 2

(* TRADE_POLICY of config/simulation_config.py; the proposed FTAs in the   *)
(* order of the dict                                                       *)
ShippedTradePolicy ==
    [ldc_graduation |-> [year |-> 2026, eu_tariff_increase |-> 900,
                         us_tariff_increase |-> 1500, canada_tariff_increase |-> 1200,
                         japan_tariff_increase |-> 1000, australia_tariff_increase |-> 800],
     fta_implementation |->
         [safta |-> [implementation_level |-> 6000, tariff_reduction |-> 7000,
                     sensitive_list_coverage |-> 3000],
          bimstec |-> [implementation_level |-> 3000, tariff_reduction |-> 5000,
                       sensitive_list_coverage |-> 4000],
          proposed_ftas |-> << [country |-> "japan", year |-> 2029, probability |-> 6000],
                               [country |-> "malaysia", year |-> 2027, probability |-> 7000],
                               [country |-> "indonesia", year |-> 2030, probability |-> 5000],
                               [country |-> "thailand", year |-> 2028, probability |-> 6000] >>,
          rcep_accession |-> [year |-> 2032, probability |-> 4000]],
     domestic_policy |->
         [import_tariff_rationalization |-> 500,
          export_incentives |-> [cash_incentive_level |-> 500,
                                 covered_sectors |-> <<"rmg", "pharma", "it_services",
                                                       "agro_products", "leather">>],
          economic_zones |-> [number_planned |-> 100, annual_implementation_rate |-> 600,
                              effectiveness |-> 7000]]]

InitPolicy ==
    /\ cfg0 \in {ConfigOf(seed, FALSE) : seed \in Seeds}
    /\ faultPlan = {}
    /\ initFails = {}
    /\ pc = "trade_policy"
    /\ struct = EmptyDict
    /\ exch = EmptyDict
    /\ compliance = EmptyDict
    /\ BlankEngine
    /\ \E c \in {ShippedTradePolicy, [ShippedTradePolicy EXCEPT
                                          !.fta_implementation.safta.implementation_level = 600,
                                          !.fta_implementation.bimstec.implementation_level = 300,
                                          !.fta_implementation.rcep_accession =
                                              [implementation_level |-> 0, year |-> 2032, probability |-> 4000]]} : trade_policy = TradePolicyInit(c)

(* one call of implement_policy_change; loc keeps the arguments, the FTA   *)
(* levels before the call and the impact returned                          *)
PolicyStep ==
    /\ pc = "trade_policy"
    /\ Len(simulated) < MaxPolicyCalls
    /\ \E y \in {2025, 2027}, policy_type \in ({"ldc_graduation", "domestic_policy"} \cup DOMAIN FtaNameOf),
          enforcement_quality \in {0, One \div 2, One}, u \in {0, 5000} :
           LET r == ImplementPolicyChange(trade_policy, heap[TariffRatesRef], y - StartYear, y,
                                          policy_type, enforcement_quality, u)
           IN  /\ trade_policy' = r.m
               /\ heap' = [heap EXCEPT ![TariffRatesRef] = r.heap]
               /\ loc' = [policy_type |-> policy_type,
                          enforcement_quality |-> enforcement_quality,
                          before |-> [f \in ExistingFtas |-> FtaLevel(trade_policy, f)],
                          result |-> r.result]
               /\ simulated' = Append(simulated, y)
    /\ UNCHANGED <<config, inputVars, clock, pc, run, models, export_models, import_models,
                   np_rng, py_rng, year, step, calls, yr, metadata, yearly_data, saved,
                   output, geo, inv, exch, struct, sect, imp, compliance>>

SpecPolicy == InitPolicy /\ [][PolicyStep]_vars

(* C18: over any sequence of implement_policy_change calls with an         *)
(* enforcement quality in [0, 1], the implementation level of each of      *)
(* safta, bimstec and rcep_accession never decreases and never exceeds     *)
(* the configured target level.                                            *)
C18_LevelsApproachTarget ==
    /\ [](pc = "trade_policy" =>
              \A f \in ExistingFtas : FtaLevel(trade_policy, f) <= FtaTarget(trade_policy, f))
    /\ [][pc = "trade_policy" =>
              \A f \in ExistingFtas : FtaLevel(trade_policy', f) >= FtaLevel(trade_policy, f)]_vars

(* a call for safta has taken its level from below the target to exactly   *)
(* the target, which a full step of 0.05 would have overshot               *)
C18_Witness ==
    /\ pc = "trade_policy"
    /\ simulated # <<>>
    /\ loc.policy_type = "fta_safta"
    /\ 0 < loc.before["safta"]
    /\ loc.before["safta"] < FtaTarget(trade_policy, "safta")
    /\ loc.before["safta"] + (500 * loc.enforcement_quality) \div One
           > FtaTarget(trade_policy, "safta")
    /\ FtaLevel(trade_policy, "safta") = FtaTarget(trade_policy, "safta")

----------------------------------------------------------------------------
(* TradeWarImpactsModel on its own: simulate_trade_wars is called year     *)
(* after year; between two calls the other models draw from the shared     *)
(* generator, so every call finds it in some state or other.               *)

MaxWarCalls == 2
InitWars ==
    /\ cfg0 \in {ConfigOf(seed, FALSE) : seed \in Seeds}
    /\ faultPlan = {}
    /\ initFails = {}
    /\ pc = "trade_wars"
    /\ struct = EmptyDict
    /\ config = cfg0
    /\ clock = 0
    /\ run = 1
    /\ models = {}
    /\ export_models = <<>>
    /\ import_models = <<>>
    /\ np_rng = 0
    /\ py_rng = 0
    /\ year = StartYear
    /\ step = "idle"
    /\ calls = <<>>
    /\ simulated = <<>>
    /\ yr = EmptyDict
    /\ loc = NoLocals
    /\ metadata = EmptyDict
    /\ yearly_data = EmptyDict
    /\ saved = EmptyDict
    /\ output = EmptyDict
    /\ heap = (TariffRatesRef :> EmptyDict)
    /\ \E p \in {1500, 6000} :
           geo = [GeoInit(cfg0) EXCEPT !.current_probability = p]
    /\ inv = EmptyDict
    /\ exch = EmptyDict
    /\ sect = EmptyDict
    /\ imp = EmptyDict
    /\ trade_policy = EmptyDict
    /\ compliance = EmptyDict

(* one call of simulate_trade_wars for the next year, the generator being  *)
(* in state x; loc keeps the result                                        *)
WarStep ==
    /\ pc = "trade_wars"
    /\ Len(simulated) < MaxWarCalls
    /\ \E x \in (0..(RngModulus - 1)), tension_level \in {One \div 2, One} :
           LET r == SimulateTradeWars(geo, heap, x, Len(simulated), year, tension_level)
           IN  /\ geo' = r.tw
               /\ heap' = r.heap
               /\ np_rng' = r.rng
               /\ loc' = [result |-> r.result]
    /\ year' = year + 1
    /\ simulated' = Append(simulated, year)
    /\ UNCHANGED <<config, inputVars, clock, pc, run, models, export_models, import_models,
                   py_rng, step, calls, yr, metadata, yearly_data, saved, output,
                   inv, exch, struct, sect, imp, trade_policy, compliance>>

SpecWars == InitWars /\ [][WarStep]_vars

(* the durations of the wars the last call started, and of the wars active *)
NewDurations ==
    {loc.result.new_trade_wars[id].duration_years : id \in DOMAIN loc.result.new_trade_wars}
ActiveDurations ==
    {heap[geo.active_trade_wars[j][2]].duration_years : j \in DOMAIN geo.active_trade_wars}

(* C19: the duration given to a newly started trade war is a whole number  *)
(* of years from 2 to 5, never less than 2 and never more than 5; each of  *)
(* 2, 3, 4 and 5 is attainable.                                            *)
C19_DurationRange ==
    (pc = "trade_wars" /\ simulated # <<>>) =>
        /\ NewDurations \subseteq 2..5
        /\ ActiveDurations \subseteq 2..5

(* wars of 2, 3, 4 and 5 years are active side by side, the one of 5 years *)
(* started by the last call                                                *)
C19_Witness ==
    /\ pc = "trade_wars"
    /\ simulated # <<>>
    /\ 5 \in NewDurations
    /\ ActiveDurations = 2..5

----------------------------------------------------------------------------
(* ComplianceModel on its own: simulate_compliance_environment is called   *)
(* year after year with any regulatory pressure and buyer requirements in  *)
(* [0, 1], the shared generator being in some state or other.              *)

MaxComplianceCalls == 3

(* the compliance levels of the three sub-models *)
ComplianceLevels(m) ==
    [labor |-> m.labor.standards,
     environmental |-> m.environmental.compliance_areas,
     product |-> [s \in DOMAIN m.product.sector_standards |->
                     m.product.sector_standards[s].current_compliance]]

InitCompliance ==
    /\ cfg0 \in {ConfigOf(seed, FALSE) : seed \in Seeds}
    /\ faultPlan = {}
    /\ initFails = {}
    /\ pc = "compliance"
    /\ struct = EmptyDict
    /\ exch = EmptyDict
    /\ trade_policy = EmptyDict
    /\ BlankEngine
    /\ \E c \in {EmptyDict, [labor_standards |-> [minimum_wage_growth |-> 800, compliance_cost |-> 300,
                                                  buyer_requirements_increase |-> 500],
                             environmental_standards |->
                                 [carbon_border_tax |-> [implementation_year |-> 2027, initial_level |-> 200,
                                                         annual_increase |-> 50],
                                  green_certification_premium |-> 500,
                                  certification_adoption_rate |-> 1000],
                             product_standards |-> [technical_barriers_growth |-> 600,
                                                    testing_capacity_improvement |-> 800,
                                                    compliance_capability_improvement |-> 700]]} : compliance = ComplianceInit(c)

(* one call of simulate_compliance_environment for the next year; loc      *)
(* keeps the arguments, the levels before the call and the result          *)
ComplianceStep ==
    /\ pc = "compliance"
    /\ Len(simulated) < MaxComplianceCalls
    /\ \E x \in {0, 7, 12}, regulatory_developments \in {0, One},
          buyer_requirements \in {0, One} :
           \E r \in {SimulateComplianceEnvironment(compliance, x, Len(simulated), year,
                                                   regulatory_developments, buyer_requirements)} :
               /\ compliance' = r.m
               /\ np_rng' = r.rng
               /\ loc' = [regulatory_developments |-> regulatory_developments,
                          buyer_requirements |-> buyer_requirements,
                          before |-> ComplianceLevels(compliance),
                          result |-> r.result]
    /\ year' = year + 1
    /\ simulated' = Append(simulated, year)
    /\ UNCHANGED <<config, inputVars, clock, pc, run, models, export_models, import_models,
                   py_rng, step, calls, yr, metadata, yearly_data, saved, output,
                   heap, geo, inv, exch, struct, sect, imp, trade_policy>>

SpecCompliance == InitCompliance /\ [][ComplianceStep]_vars

NotLower(before, after) == \A k \in DOMAIN before : after[k] >= before[k]

(* C20: in each of the labor, environmental and product standards          *)
(* sub-models no compliance level is lower after a simulated year than it  *)
(* was before the year, for regulatory pressure and buyer requirements in  *)
(* [0, 1].                                                                 *)
C20_LevelsNeverLower ==
    [][pc = "compliance" =>
           /\ NotLower(ComplianceLevels(compliance).labor, ComplianceLevels(compliance').labor)
           /\ NotLower(ComplianceLevels(compliance).environmental,
                       ComplianceLevels(compliance').environmental)
           /\ NotLower(ComplianceLevels(compliance).product,
                       ComplianceLevels(compliance').product)]_vars

(* a year without any pressure, in which the random variation of a labor   *)
(* standard and of an environmental area was not positive: the two levels  *)
(* are what they were, other levels of both sub-models have risen, and so  *)
(* has every product compliance level                                      *)
C20_Witness ==
    /\ pc = "compliance"
    /\ simulated # <<>>
    /\ loc.regulatory_developments = 0
    /\ loc.buyer_requirements = 0
    /\ \E k \in DOMAIN loc.before.labor :
           ComplianceLevels(compliance).labor[k] = loc.before.labor[k]
    /\ \E k \in DOMAIN loc.before.labor :
           ComplianceLevels(compliance).labor[k] > loc.before.labor[k]
    /\ \E k \in DOMAIN loc.before.environmental :
           ComplianceLevels(compliance).environmental[k] = loc.before.environmental[k]
    /\ \E k \in DOMAIN loc.before.environmental :
           ComplianceLevels(compliance).environmental[k] > loc.before.environmental[k]
    /\ \A k \in DOMAIN loc.before.product :
           ComplianceLevels(compliance).product[k] > loc.before.product[k]

----------------------------------------------------------------------------
(* C21: an export sector or import category whose configuration entry      *)
(* omits keys is still constructed and simulated with the literal          *)
(* defaults: unless its call is one that fails for another reason, the     *)
(* stored yearly record holds a normal result for it, never an error       *)
(* marker.                                                                 *)
C21_DefaultsSimulated ==
    \A y \in DOMAIN yearly_data :
        \A k \in DOMAIN ExpectedCalls :
            (ExpectedCalls[k] \in SectorNames \cup CategoryNames
             /\ <<ExpectedCalls[k], y>> \notin faultPlan)
                => ~IsError(StoredResult(yearly_data[y], ExpectedCalls[k]))

----------------------------------------------------------------------------
(* C22: after every call of an export sector's simulate_year, whatever the *)
(* inputs and the history before it, the competitiveness it returns, and   *)
(* records under the year index, lies in [0.1, 1.0].                       *)
C22_CompetitivenessInRange ==
    (pc = "export_sector" /\ simulated # <<>>) =>
        /\ loc.result.competitiveness \in 1000..One
        /\ sect[export_models[1]].historical_competitiveness[loc.result.year_index]
               = loc.result.competitiveness

(* two calls on a sector configured with a competitiveness of 0.05: the    *)
(* first was held at 0.1 from below, the second at 1.0 from above          *)
C22_Witness ==
    /\ pc = "export_sector"
    /\ Len(simulated) = 2
    /\ CalculateOverallCompetitiveness(sect[export_models[1]].competitiveness_factors) < 1000
    /\ sect[export_models[1]].historical_competitiveness[0] = 1000
    /\ loc.prev_competitiveness = 1000
    /\ loc.in.exchange_rate_impact > One
    /\ loc.result.competitiveness = One

----------------------------------------------------------------------------
(* TradeWarImpactsModel over consecutive years: simulate_trade_wars is     *)
(* called for one year after the other with the tension level the          *)
(* geopolitical model passes, long enough for the longest war to end.      *)

MaxWarYears == 6

WarYear ==
    /\ pc = "trade_wars"
    /\ Len(simulated) < MaxWarYears
    /\ \E x \in {3, 7, 10, 12} :
       \E r \in {SimulateTradeWars(geo, heap, x, Len(simulated), year, One \div 2)} :
           /\ geo' = r.tw
           /\ heap' = r.heap
           /\ np_rng' = r.rng
           /\ loc' = [result |-> r.result]
    /\ year' = year + 1
    /\ simulated' = Append(simulated, year)
    /\ UNCHANGED <<config, inputVars, clock, pc, run, models, export_models, import_models,
                   py_rng, step, calls, yr, metadata, yearly_data, saved, output,
                   inv, exch, struct, sect, imp, trade_policy, compliance>>

SpecWarYears == InitWars /\ [][WarYear]_vars

(* C23: every trade war ends after its duration.  A war of duration d      *)
(* started in year Y is, when year y is simulated, kept in the active set  *)
(* while y < Y + d and removed, and listed as ended, when y = Y + d; a war *)
(* enters the active set only as a war started in the simulated year.      *)
C23_WarsEndOnTime ==
    [][pc = "trade_wars" =>
           /\ \A j \in DOMAIN geo.active_trade_wars :
                  LET e == geo.active_trade_wars[j]
                      started_year == heap[e[2]].started_year
                      duration_years == heap[e[2]].duration_years
                  IN  /\ year <= started_year + duration_years
                      /\ heap'[e[2]].started_year = started_year
                      /\ heap'[e[2]].duration_years = duration_years
                      /\ IF year < started_year + duration_years
                         THEN /\ e \in SeqToSet(geo'.active_trade_wars)
                              /\ e[1] \in DOMAIN loc'.result.active_trade_wars
                              /\ e[1] \notin SeqToSet(loc'.result.ended_trade_wars)
                         ELSE /\ e \notin SeqToSet(geo'.active_trade_wars)
                              /\ e[1] \notin DOMAIN loc'.result.active_trade_wars
                              /\ e[1] \in SeqToSet(loc'.result.ended_trade_wars)
           /\ \A e \in SeqToSet(geo'.active_trade_wars) \ SeqToSet(geo.active_trade_wars) :
                  /\ heap'[e[2]].started_year = year
                  /\ e[1] \in DOMAIN loc'.result.new_trade_wars]_vars

(* the sixth year has been simulated: the war between the US and China     *)
(* that started in the first year with a duration of 5 years was active    *)
(* until the fifth and has just been removed, and another war that started *)
(* later with a duration of 2 years has ended before                       *)
C23_Witness ==
    /\ pc = "trade_wars"
    /\ Len(simulated) = 6
    /\ <<"us_china", StartYear>> \in DOMAIN heap
    /\ heap[<<"us_china", StartYear>>].duration_years = 5
    /\ "us_china" \in SeqToSet(loc.result.ended_trade_wars)
    /\ \E ref \in DOMAIN heap \ {TariffRatesRef} :
           /\ heap[ref].duration_years = 2
           /\ heap[ref].started_year > StartYear
           /\ heap[ref].started_year + 2 < year
           /\ \A j \in DOMAIN geo.active_trade_wars : geo.active_trade_wars[j][2] # ref

----------------------------------------------------------------------------
(* C24: over any sequence of implement_policy_change calls the             *)
(* LDC-graduation tariff step is applied at most once and never in a year  *)
(* before the configured graduation year, and once it is applied           *)
(* ldc_graduation_implemented never returns to false.  A call applies the  *)
(* step when it sets the flag; only such a call reports the graduation as  *)
(* implemented or touches the tariff rates of the graduation.              *)
C24_GraduationOnce ==
    [][pc = "trade_policy" =>
           LET flag == trade_policy.policies.ldc_graduation_implemented
               applied == /\ loc'.policy_type = "ldc_graduation"
                          /\ loc'.result.implemented
           IN  /\ flag => trade_policy'.policies.ldc_graduation_implemented
               /\ applied <=> (~flag /\ trade_policy'.policies.ldc_graduation_implemented)
               /\ applied => loc'.result.simulation_year
                                 >= Get(trade_policy.ldc_graduation, "year", 2026)
               /\ (loc'.policy_type = "ldc_graduation" /\ ~applied)
                      => heap'[TariffRatesRef] = heap[TariffRatesRef]]_vars

(* the graduation was asked for twice in 2027: the first call applied the  *)
(* step, the second found the flag set and changed nothing                 *)
C24_Witness ==
    /\ pc = "trade_policy"
    /\ simulated = <<2027, 2027>>
    /\ trade_policy.policies.ldc_graduation_implemented
    /\ loc.policy_type = "ldc_graduation"
    /\ ~loc.result.implemented
    /\ heap[TariffRatesRef] = LdcTariffChanges(trade_policy.ldc_graduation)

----------------------------------------------------------------------------
(* The specialised sector models, driven on their own: one model of one of *)
(* the three classes, called with consecutive year indices.                *)
MaxSpecialisedSteps == 3

SectorClasses == {"RMGSectorModel", "EmergingSectorModel", "TraditionalSectorModel"}

(* simulate_year of the class of the model m *)
SimulateYearOf(m, name, yi, in, rng) ==
    CASE m.class = "RMGSectorModel" -> RmgSimulateYear(m, name, yi, in, rng)
      [] m.class = "EmergingSectorModel" -> EmergingSimulateYear(m, name, yi, in, rng)
      [] OTHER -> TraditionalSimulateYear(m, name, yi, in, rng)

InitSpecialised ==
    /\ cfg0 \in {ConfigOf(seed, FALSE) : seed \in Seeds}
    /\ faultPlan = {}
    /\ initFails = {}
    /\ pc = "specialised_sector"
    /\ struct = EmptyDict
    /\ config = cfg0
    /\ clock = 0
    /\ run = 1
    /\ models = {}
    /\ \E name \in SectorNames, class \in SectorClasses,
          c \in {SectorConfigs.rmg, SectorConfigs.pharma} :
           /\ export_models = <<name>>
           /\ sect = (name :> SpecialisedInit(class, c))
    /\ import_models = <<>>
    /\ np_rng = 0
    /\ py_rng = 0
    /\ year = StartYear
    /\ step = "idle"
    /\ calls = <<>>
    /\ simulated = <<>>
    /\ yr = EmptyDict
    /\ loc = NoLocals
    /\ metadata = EmptyDict
    /\ yearly_data = EmptyDict
    /\ saved = EmptyDict
    /\ output = EmptyDict
    /\ heap = (TariffRatesRef :> EmptyDict)
    /\ geo = EmptyDict
    /\ inv = EmptyDict
    /\ exch = EmptyDict
    /\ imp = EmptyDict
    /\ trade_policy = EmptyDict
    /\ compliance = EmptyDict

(* one call of simulate_year of the specialised model with the next year   *)
(* index; loc keeps the volume the call took as the previous one and the   *)
(* result it returned                                                      *)
SpecialisedStep ==
    /\ pc = "specialised_sector"
    /\ Len(simulated) < MaxSpecialisedSteps
    /\ \E d \in {300, 500}, x \in {0, 3, 6},
          c \in {[exchange_rate_impact |-> 0, logistics_performance |-> 6000,
                  trade_policy_impact |-> 0, compliance_impact |-> 0, digital_adoption |-> 0],
                 [exchange_rate_impact |-> 0, logistics_performance |-> 6000,
                  trade_policy_impact |-> 0, compliance_impact |-> 0,
                  digital_adoption |-> 5000]} :
           \E r \in {SimulateYearOf(sect[export_models[1]], export_models[1], Len(simulated),
                                    [global_demand_growth |-> d, tariff_changes |-> EmptyDict,
                                     competitor_growth |-> EmptyDict] @@ c, x)} :
               /\ sect' = [sect EXCEPT ![export_models[1]] = r.m]
               /\ np_rng' = r.rng
               /\ loc' = [prev_volume |->
                              Get(sect[export_models[1]].historical_volumes, Len(simulated) - 1,
                                  sect[export_models[1]].current_volume),
                          result |-> r.result]
    /\ year' = year + 1
    /\ simulated' = Append(simulated, year)
    /\ UNCHANGED <<config, inputVars, clock, pc, run, models, export_models, import_models,
                   py_rng, step, calls, yr, metadata, yearly_data, saved, output,
                   heap, geo, inv, exch, struct, imp, trade_policy, compliance>>

SpecSpecialised == InitSpecialised /\ [][SpecialisedStep]_vars

(* C25: the export volume a sector model reports for one year index is the *)
(* volume its next call takes as the previous volume, for the base model   *)
(* and for the RMG, emerging and traditional models alike.                 *)
C25_ReportedVolumeCarried ==
    [][(pc \in {"export_sector", "specialised_sector"} /\ simulated # <<>>)
       => loc'.prev_volume = loc.result.export_volume]_vars

(* C26: a sector or import-category call that the engine records as an     *)
(* error leaves that model as it was before the call; in particular it     *)
(* adds no entry to the model's volume or ratio history.                   *)
C26_FailedCallKeepsModel ==
    [][/\ (pc = "running" /\ step = "import" /\ loc.i <= Len(import_models)
           /\ IsError(loc'.all_import_results[import_models[loc.i]]))
          => imp'[import_models[loc.i]] = imp[import_models[loc.i]]
       /\ (pc = "running" /\ step = "export" /\ loc.i <= Len(export_models)
           /\ IsError(loc'.all_sector_results[export_models[loc.i]]))
          => sect'[export_models[loc.i]] = sect[export_models[loc.i]]]_vars

----------------------------------------------------------------------------
(* The trade-policy model with both of its operations: policy changes are  *)
(* implemented and the overall environment is asked for in between.        *)
MaxEnvironmentCalls == 2

(* one call of implement_policy_change; calls keeps every impact returned, *)
(* an environment returned before is dropped                               *)
PolicyChange ==
    /\ Len(calls) < MaxEnvironmentCalls
    /\ \E y \in {2025, 2027},
          policy_type \in ({"ldc_graduation", "domestic_policy"} \cup DOMAIN FtaNameOf),
          enforcement_quality \in {One \div 2, One} :
           \E r \in {ImplementPolicyChange(trade_policy, heap[TariffRatesRef], y - StartYear, y,
                                           policy_type, enforcement_quality, 0)} :
               /\ trade_policy' = r.m
               /\ heap' = [heap EXCEPT ![TariffRatesRef] = r.heap]
               /\ calls' = Append(calls, r.result)
               /\ loc' = [policy_type |-> policy_type, result |-> r.result]
               /\ simulated' = Append(simulated, y)
               /\ yr' = EmptyDict
    /\ UNCHANGED <<config, inputVars, clock, pc, run, models, export_models, import_models,
                   np_rng, py_rng, year, step, metadata, yearly_data, saved,
                   output, geo, inv, exch, struct, sect, imp, compliance>>

(* one call of get_overall_policy_environment; yr keeps what it returned *)
PolicyEnvironment ==
    /\ calls # <<>>
    /\ \E yi \in {0, 2, 3} :
           \E r \in {OverallPolicyEnvironment(trade_policy, yi, StartYear + yi)} :
               /\ yr' = r
               /\ yr' # yr
    /\ UNCHANGED <<config, inputVars, clock, pc, run, models, export_models, import_models,
                   np_rng, py_rng, year, step, calls, loc, simulated, metadata, yearly_data,
                   saved, output, heap, geo, inv, exch, struct, sect, imp, trade_policy,
                   compliance>>

NextEnvironment == PolicyChange \/ PolicyEnvironment

SpecEnvironment == InitPolicy /\ [][NextEnvironment]_vars

(* the calls of implement_policy_change made for a year index up to yi *)
ChangesUpTo(yi) == {i \in 1..Len(calls) : calls[i].year_index <= yi}

RECURSIVE WeightedChanges(_, _, _)
WeightedChanges(is, yi, key) ==
    IF is = {} THEN 0
    ELSE LET i == CHOOSE v \in is : TRUE
         IN  (calls[i][key] * RecencyWeight(yi - calls[i].year_index)) \div One
             + WeightedChanges(is \ {i}, yi, key)

RECURSIVE TariffChanges(_, _)
TariffChanges(is, market) ==
    IF is = {} THEN 0
    ELSE LET i == CHOOSE v \in is : TRUE
         IN  Get(calls[i].tariff_changes, market, 0) + TariffChanges(is \ {i}, market)

(* C27: the environment returned for a year index reflects every policy    *)
(* change implemented for that or an earlier year index, several changes   *)
(* of one year included: each market's tariff rate is the sum of all their *)
(* tariff changes, and the two scores are the baselines plus all their     *)
(* recency-weighted impacts, cut to 0.1..1.                                *)
C27_EnvironmentReflectsAll ==
    (yr # EmptyDict /\ ChangesUpTo(yr.year_index) # {}) =>
        /\ \A i \in ChangesUpTo(yr.year_index) : \A market \in DOMAIN calls[i].tariff_changes :
               /\ market \in DOMAIN yr.tariff_rates
               /\ yr.tariff_rates[market] = TariffChanges(ChangesUpTo(yr.year_index), market)
        /\ yr.market_access_score =
               Max(1000, Min(One, 7000 + WeightedChanges(ChangesUpTo(yr.year_index),
                                                         yr.year_index, "market_access_impact")))
        /\ yr.domestic_policy_score =
               Max(1000, Min(One, 5000 + WeightedChanges(ChangesUpTo(yr.year_index),
                                                         yr.year_index,
                                                         "domestic_industry_impact")))

----------------------------------------------------------------------------
(* The ports of LogisticsModel.  Capacities and container volumes are in   *)
(* thousand TEU; a market share is the number the code computes from the   *)
(* capacity in TEU.                                                        *)
MaxPortYears == 3

TeuPerUnit == 1000

(* LOGISTICS['ports'], without the entries that only feed the waiting time *)
ShippedPorts ==
    [chittagong |-> [current_capacity |-> 3000, efficiency_improvement |-> 300,
                     expansion_timeline |-> (2028 :> 4000)],
     matarbari |-> [start_year |-> 2027, initial_capacity |-> 1500, efficiency |-> 8000,
                    expansion_timeline |-> EmptyDict],
     payra |-> [start_year |-> 2026, initial_capacity |-> 500, efficiency |-> 7000,
                expansion_timeline |-> EmptyDict]]

(* the reference of the PortInfrastructure object of one port *)
PortRef(port_name) == <<port_name, 0>>

(* PortInfrastructure.__init__ *)
PortInit(port_name, c) ==
    [port_name |-> port_name, config |-> c,
     expansion_timeline |-> Get(c, "expansion_timeline", EmptyDict),
     efficiency_improvement |-> Get(c, "efficiency_improvement", 300),
     start_year |-> Get(c, "start_year", 2025),
     initial_capacity |-> Get(c, "initial_capacity", 0),
     efficiency |-> Get(c, "efficiency", 7000),
     market_share |-> 0,
     operational |-> port_name = "chittagong",
     capacity |-> IF port_name = "chittagong" THEN Get(c, "current_capacity", 0) ELSE 0]

(* PortInfrastructure.simulate_year, without the waiting time *)
PortSimulateYear(p, yi, y, container_volume, infrastructure_investment, policy_effectiveness) ==
    LET opens == ~p.operational /\ y >= p.start_year
        operational == p.operational \/ opens
        opened == IF opens THEN p.initial_capacity ELSE p.capacity
        capacity == IF y \in DOMAIN p.expansion_timeline THEN p.expansion_timeline[y]
                    ELSE opened
        efficiency0 == IF opens THEN Get(p.config, "efficiency", 7000) ELSE p.efficiency
        base_improvement ==
            (((p.efficiency_improvement * infrastructure_investment) \div One)
             * policy_effectiveness) \div One
        efficiency_improvement == (base_improvement * (One - Min(5000, efficiency0))) \div One
        efficiency == Min(9500, efficiency0 + efficiency_improvement)
        utilized_capacity == Min(container_volume, capacity)
        utilization_rate == IF capacity > 0 THEN (utilized_capacity * One) \div capacity
                            ELSE One
        congestion_level == IF utilization_rate > 8000
                            THEN ((utilization_rate - 8000) * One) \div (One - 8000)
                            ELSE 0
        raw_market_share ==
            ((((capacity * efficiency) \div One) * (One - congestion_level \div 2)) \div One)
            * TeuPerUnit
    IN  IF ~operational
        THEN [p |-> p,
              result |-> [year_index |-> yi, simulation_year |-> y, operational |-> FALSE,
                          capacity |-> 0, utilized_capacity |-> 0, efficiency |-> 0,
                          market_share |-> 0, congestion_level |-> 0]]
        ELSE [p |-> [p EXCEPT !.operational = TRUE, !.capacity = capacity,
                              !.efficiency = efficiency, !.market_share = raw_market_share],
              result |-> [year_index |-> yi, simulation_year |-> y, operational |-> TRUE,
                          capacity |-> capacity, utilized_capacity |-> utilized_capacity,
                          utilization_rate |-> utilization_rate, efficiency |-> efficiency,
                          congestion_level |-> congestion_level,
                          market_share |-> raw_market_share]]

(* the port loop of LogisticsModel.simulate_logistics_performance: every   *)
(* port is handed container_volume * port.get_market_share()               *)
SimulatePorts(h, yi, y, trade_volume, infrastructure_investment, policy_effectiveness) ==
    LET container_volume == trade_volume \div (100 * TeuPerUnit)
        handed == [r \in DOMAIN h |-> container_volume * h[r].market_share]
        port(r) == PortSimulateYear(h[r], yi, y, handed[r], infrastructure_investment,
                                    policy_effectiveness)
    IN  [heap |-> [r \in DOMAIN h |-> port(r).p],
         container_volume |-> container_volume,
         handed |-> handed,
         port_results |-> [r \in DOMAIN h |-> port(r).result]]

InitPorts ==
    /\ cfg0 \in {ConfigOf(seed, FALSE) : seed \in Seeds}
    /\ faultPlan = {}
    /\ initFails = {}
    /\ pc = "ports"
    /\ struct = EmptyDict
    /\ config = cfg0
    /\ clock = 0
    /\ run = 1
    /\ models = {}
    /\ export_models = <<>>
    /\ import_models = <<>>
    /\ np_rng = 0
    /\ py_rng = 0
    /\ year = StartYear
    /\ step = "idle"
    /\ calls = <<>>
    /\ simulated = <<>>
    /\ yr = EmptyDict
    /\ loc = NoLocals
    /\ metadata = EmptyDict
    /\ yearly_data = EmptyDict
    /\ saved = EmptyDict
    /\ output = EmptyDict
    /\ \E ports_config \in {ShippedPorts, [n \in {"chittagong"} |-> ShippedPorts[n]],
                            [n \in {"chittagong", "payra"} |-> ShippedPorts[n]]} :
           heap = [r \in {PortRef(n) : n \in DOMAIN ports_config} |->
                       PortInit(r[1], ports_config[r[1]])]
    /\ geo = EmptyDict
    /\ inv = EmptyDict
    /\ exch = EmptyDict
    /\ sect = EmptyDict
    /\ imp = EmptyDict
    /\ trade_policy = EmptyDict
    /\ compliance = EmptyDict

(* one call of simulate_logistics_performance, as far as the ports go; loc *)
(* keeps the total container volume, what every port was handed, and the   *)
(* port results                                                            *)
PortYear ==
    /\ pc = "ports"
    /\ Len(simulated) < MaxPortYears
    /\ \E trade_volume \in {100000, 200000, 300000}, infrastructure_investment \in {5000, One},
          policy_effectiveness \in {6000, One} :
           \E r \in {SimulatePorts(heap, Len(simulated), year, trade_volume,
                                   infrastructure_investment, policy_effectiveness)} :
               /\ heap' = r.heap
               /\ loc' = [container_volume |-> r.container_volume, handed |-> r.handed,
                          port_results |-> r.port_results]
    /\ year' = year + 1
    /\ simulated' = Append(simulated, year)
    /\ UNCHANGED <<config, inputVars, clock, pc, run, models, export_models, import_models,
                   np_rng, py_rng, step, calls, yr, metadata, yearly_data, saved, output,
                   geo, inv, exch, struct, sect, imp, trade_policy, compliance>>

SpecPorts == InitPorts /\ [][PortYear]_vars

(* C28: in every simulated year the container volumes handed to the ports  *)
(* add up to no more than the total container volume of the year.          *)
C28_PortVolumesWithinTotal ==
    (pc = "ports" /\ simulated # <<>>) => SumDict(loc.handed) <= loc.container_volume

(* C29: the intervention cost charged by a call of simulate_exchange_rate  *)
(* never exceeds the reserves available in that year (the reserves before  *)
(* the call plus the overall balance), so an intervention never leaves     *)
(* foreign_reserves below zero.                                            *)
C29_InterventionWithinReserves ==
    (pc = "exchange_rate" /\ simulated # <<>> /\ ~loc.raised
     /\ loc.result.intervention_cost > 0) =>
        /\ loc.result.intervention_cost
               <= loc.previous_reserves + loc.result.overall_balance
        /\ exch.foreign_reserves >= 0

----------------------------------------------------------------------------
(* run_scenario_comparison.  A configuration mapping is kept as Python     *)
(* keeps it: the top-level dict holds scalars and references to nested     *)
(* dicts, the nested dicts live in heap.  The 'scenarios' entry, which is  *)
(* only read, is ScenarioSettings.                                         *)
MaxScenarios == 3

(* config['scenarios']: per scenario, the overrides whose value is a dict  *)
(* and those whose value is a scalar                                       *)
ScenarioSettings ==
    [baseline |-> [dicts |-> EmptyDict, scalars |-> EmptyDict],
     accelerated_growth |->
         [dicts |-> [modifiers |-> [export_growth_multiplier |-> 13000]],
          scalars |-> [name |-> "Accelerated Growth"]],
     weak_taka |-> [dicts |-> [exchange_rate_config |-> [annual_depreciation |-> 800]],
                    scalars |-> EmptyDict],
     volatile |-> [dicts |-> [exchange_rate_config |-> [volatility |-> 1000]],
                   scalars |-> [random_seed |-> 7]]]

(* the reference of a nested dict of the base configuration *)
ConfigRef(key) == <<key, 0>>

(* the reference of the dict a scenario gives for a key *)
ScenarioRef(scenario, key) == <<key, Len(scenario)>>

(* the (scenario, key) pairs of the dicts the scenarios give *)
ScenarioDicts ==
    UNION {{<<s, k>> : k \in DOMAIN ScenarioSettings[s].dicts} : s \in DOMAIN ScenarioSettings}

(* the base configurations: [scalars, dicts], dicts by value *)
BaseConfigs ==
    {[scalars |-> [random_seed |-> seed],
      dicts |-> [exchange_rate_config |-> [volatility |-> 500, annual_depreciation |-> d],
                 export_sector_config |-> [sectors |-> [rmg |-> [current_volume |-> 45000]]]]] :
         seed \in Seeds, d \in {300, 500}}

(* a configuration with every nested dict read out of the heap h *)
Resolve(c, h) == [scalars |-> c.scalars, dicts |-> [k \in DOMAIN c.dicts |-> h[c.dicts[k]]]]

(* what TradeSimulationEngine writes into the nested dicts of the          *)
(* configuration it is given: the sector_name of every sector              *)
EngineWrites(h, c) ==
    IF "export_sector_config" \in DOMAIN c.dicts
    THEN [h EXCEPT ![c.dicts.export_sector_config].sectors =
              [s \in DOMAIN (@) |-> ("sector_name" :> s) @@ (@)[s]]]
    ELSE h

(* the loop body of run_scenario_comparison up to the construction of the  *)
(* engine: config.copy(), then update() of a nested dict for a dict value  *)
(* under a key already there, assignment otherwise                         *)
ScenarioConfig(c, h, scenario) ==
    LET settings == ScenarioSettings[scenario]
        updated == {k \in DOMAIN settings.dicts : k \in DOMAIN c.dicts}
        assigned == DOMAIN settings.dicts \ updated
    IN  [scenario_config |->
             [scalars |-> settings.scalars @@ c.scalars,
              dicts |-> [k \in assigned |-> ScenarioRef(scenario, k)] @@ c.dicts],
         heap |-> [r \in DOMAIN h |->
                       IF \E k \in updated : c.dicts[k] = r
                       THEN LET k == CHOOSE k \in updated : c.dicts[k] = r
                            IN  settings.dicts[k] @@ h[r]
                       ELSE h[r]]]

InitScenarios ==
    /\ \E base \in BaseConfigs :
           /\ cfg0 = base
           /\ config = [scalars |-> base.scalars,
                        dicts |-> [k \in DOMAIN base.dicts |-> ConfigRef(k)]]
           /\ heap = [r \in {ConfigRef(k) : k \in DOMAIN base.dicts}
                             \cup {ScenarioRef(p[1], p[2]) : p \in ScenarioDicts} |->
                          IF r \in {ConfigRef(k) : k \in DOMAIN base.dicts}
                          THEN base.dicts[r[1]]
                          ELSE LET p == CHOOSE p \in ScenarioDicts :
                                            ScenarioRef(p[1], p[2]) = r
                               IN  ScenarioSettings[p[1]].dicts[p[2]]]
    /\ faultPlan = {}
    /\ initFails = {}
    /\ pc = "scenarios"
    /\ struct = EmptyDict
    /\ clock = 0
    /\ run = 1
    /\ models = {}
    /\ export_models = <<>>
    /\ import_models = <<>>
    /\ np_rng = 0
    /\ py_rng = 0
    /\ year = StartYear
    /\ step = "idle"
    /\ calls = <<>>
    /\ simulated = <<>>
    /\ yr = EmptyDict
    /\ loc = NoLocals
    /\ metadata = EmptyDict
    /\ yearly_data = EmptyDict
    /\ saved = EmptyDict
    /\ output = EmptyDict
    /\ geo = EmptyDict
    /\ inv = EmptyDict
    /\ exch = EmptyDict
    /\ sect = EmptyDict
    /\ imp = EmptyDict
    /\ trade_policy = EmptyDict
    /\ compliance = EmptyDict

(* one pass of the loop over args.scenarios; loc keeps the scenario and    *)
(* the configuration its engine was constructed with                       *)
RunScenario ==
    /\ pc = "scenarios"
    /\ Len(calls) < MaxScenarios
    /\ \E scenario \in DOMAIN ScenarioSettings :
           \E r \in {ScenarioConfig(config, heap, scenario)} :
               /\ loc' = [scenario |-> scenario,
                          scenario_config |-> Resolve(r.scenario_config, r.heap)]
               /\ heap' = EngineWrites(r.heap, r.scenario_config)
               /\ calls' = Append(calls, scenario)
    /\ UNCHANGED <<config, inputVars, clock, pc, run, models, export_models, import_models,
                   np_rng, py_rng, year, step, simulated, yr, metadata, yearly_data, saved,
                   output, geo, inv, exch, struct, sect, imp, trade_policy, compliance>>

SpecScenarios == InitScenarios /\ [][RunScenario]_vars

(* the base configuration with the overrides of one scenario applied *)
BaseWithOverrides(base, scenario) ==
    LET settings == ScenarioSettings[scenario]
    IN  [scalars |-> settings.scalars @@ base.scalars,
         dicts |-> [k \in DOMAIN settings.dicts \cup DOMAIN base.dicts |->
                        IF k \notin DOMAIN settings.dicts THEN base.dicts[k]
                        ELSE IF k \notin DOMAIN base.dicts THEN settings.dicts[k]
                        ELSE settings.dicts[k] @@ base.dicts[k]]]

(* C30: the configuration a scenario of a comparison is run with is the    *)
(* base configuration with only that scenario's overrides applied,         *)
(* whatever scenarios ran before it and whatever their runs did.           *)
C30_ScenarioConfigIndependent ==
    (pc = "scenarios" /\ calls # <<>>) =>
        loc.scenario_config = BaseWithOverrides(cfg0, loc.scenario)

====
